---- MODULE Spec2Model ----
(***************************************************************************)
(* Master / worker coordination of mini-spark: job submission, partition   *)
(* fan-out, DAG gating, round-robin dispatch, completion and failure       *)
(* reports, retry, worker liveness and orphan recovery.                    *)
(*                                                                         *)
(* Abstractions: task ids (uuid.New) are drawn from a counter; time is     *)
(* abstracted to a flag per worker that says whether its last heartbeat is *)
(* more than 10 s old; rrIndex is kept modulo RRPeriod because it is only  *)
(* ever read modulo the number of live workers.                            *)
(***************************************************************************)
EXTENDS Integers, Sequences, FiniteSets, TLC

\* ---------------------------------------------------------------- bounds
MaxParallelism == 2
MaxTaskId == 4
MaxRepost == 1
MaxJobSize == 4
MaxFaults == 1

\* ------------------------------------------------------ program constants
MaxRetries == 3
QueueCap == 100
ReportTries == 3

WorkerIds == {"w1", "w2"}
JobIds == {"j1"}
\* rrIndex is only read modulo the number of UP workers.
RRPeriod == Cardinality(WorkerIds)

DagSingle == [Nodes |-> <<"a">>, Edges |-> <<>>]
DagChain == [Nodes |-> <<"a", "b">>, Edges |-> <<(<<"a", "b">>)>>]
DagJoin == [Nodes |-> <<"a", "b", "c">>,
            Edges |-> <<(<<"a", "c">>), (<<"b", "c">>)>>]
Dags == {DagSingle, DagChain, DagJoin}

VARIABLES
    Workers,              \* registry: worker id -> [Status, Late, URL, Metrics]
    Jobs,                 \* job id -> [Status, Graph, Parallelism, Completed]
    JobProgress,          \* job id -> node id -> status
    JobOutputs,           \* job id -> node id -> path
    JobFailures,          \* job id -> count
    JobPartitionOutputs,  \* job id -> node id -> partition -> path
    TaskProgress,         \* job id -> node id -> partition -> status
    TaskQueue,            \* the buffered channel
    TaskAssignments,      \* task id -> worker id
    RunningTasks,         \* task id -> task
    rrIndex,
    stateFile,            \* the persisted snapshot
    nextId,               \* next fresh task id
    sourcesPending,       \* jobs whose ScheduleSourceTasks goroutine has not run yet
    senders,              \* goroutines waiting to send one task to TaskQueue
    sleeping,             \* task held by the scheduler during the no-worker backoff
    posts,                \* dispatch POSTs in flight (sendTask goroutines)
    proc,                 \* worker process: "new" | "alive" | "dead" | "deadMidTask"
    accepted,             \* worker id -> tasks accepted and not yet reported
    plan,                 \* fault injection: which executions fail
    lastReport,           \* the report handled by the last step, if any
    faults,               \* number of injected faults so far
    requeued,             \* ids of the live tasks that orphan recovery re-queued
    mu,                   \* m.mu: "" when free, else the activity that holds it
    fanout,               \* ScheduleSourceTasks in progress: [job, k], k the loop position
    held,                 \* the task SchedulerLoop has received and not yet handled
    opTask,               \* worker: the task ExecuteTask is called with
    opFiles,              \* worker: path -> lines, for the files that can be opened
    opIO,                 \* worker: "ok" | "createFails" | "writeFails"
    SpillThreshold,       \* worker: the package variable of executor.go
    opReport,             \* worker: the report ExecuteTask posted, if any
    query,                \* GetJobResultsHandler between its unlock and its answer
    answer,               \* the last answer of GetJobResultsHandler
    lastAssign            \* history: the last assignment and the UP workers it chose from

masterVars == <<Workers, Jobs, JobProgress, JobOutputs, JobFailures,
                JobPartitionOutputs, TaskProgress, TaskQueue, TaskAssignments,
                RunningTasks, rrIndex, stateFile, nextId, sourcesPending,
                senders, sleeping, posts>>
\* The master mutex and the two activities that use it step by step.
lockVars == <<mu, fanout, held>>

\* One execution of a task by a worker, looked at with its files.
opVars == <<opTask, opFiles, opIO, SpillThreshold, opReport>>

\* One results query, looked at in its two parts.
queryVars == <<query, answer>>

\* What an observer of the scheduler notes; the program does not read it.
histVars == <<lastAssign>>

vars == <<masterVars, proc, accepted, plan, faults, lastReport, requeued, lockVars,
          opVars, queryVars, histVars>>

\* ------------------------------------------------------------ Go maps
EmptyMap == [x \in {} |-> {}]

MapSet(f, k, v) == [x \in (DOMAIN f) \cup {k} |-> IF x = k THEN v ELSE f[x]]

MapDelete(f, k) == [x \in (DOMAIN f) \ {k} |-> f[x]]

MapGet(f, k, zero) == IF k \in DOMAIN f THEN f[k] ELSE zero

TaskResult(id, jobID, nodeID, partID, status, result) ==
    [ID |-> id, JobID |-> jobID, NodeID |-> nodeID, PartitionID |-> partID,
     Status |-> status, Result |-> result]

\* lastReport when the last step handled no report.
NoReport == [res |-> TaskResult(0, "", "", 0, "NONE", <<>>), attempt |-> 0,
             part |-> 0, found |-> FALSE]

Task(id, jobID, nodeID, inputs, partID, totalParts, attempt) ==
    [ID |-> id, JobID |-> jobID, NodeID |-> nodeID, InputFiles |-> inputs,
     PartitionID |-> partID, TotalPartitions |-> totalParts, Attempt |-> attempt]

Parallelism_Raw(job) == job.Parallelism

\* The number of partitions every reader of job.Parallelism works with.
Parallelism(job) == IF job.Parallelism < 1 THEN 1 ELSE job.Parallelism

\* ------------------------------------------------------------ state.go
getPartitionStatus(tp, jobID, nodeID, partID) ==
    IF jobID \in DOMAIN tp /\ nodeID \in DOMAIN tp[jobID]
    THEN MapGet(tp[jobID][nodeID], partID, "")
    ELSE "PENDING"

setNodeStatus(jp, jobID, nodeID, status) ==
    MapSet(jp, jobID, MapSet(MapGet(jp, jobID, EmptyMap), nodeID, status))

setPartitionStatus(tp, jobID, nodeID, partID, status) ==
    LET jobMap == MapGet(tp, jobID, EmptyMap)
        nodeMap == MapGet(jobMap, nodeID, EmptyMap)
    IN MapSet(tp, jobID, MapSet(jobMap, nodeID, MapSet(nodeMap, partID, status)))

\* Mutant of Snapshot: the outputs are left out of the file.
Snapshot_WithoutOutputs(jobs, outputs, failures) ==
    [Jobs |-> jobs, JobOutputs |-> [x \in {} |-> {}], JobFailures |-> failures]

\* SaveState: the content of the file it writes.
\* SaveState that leaves the failure counters out of the file.
Snapshot_WithoutFailures(jobs, outputs, failures) ==
    [Jobs |-> jobs, JobOutputs |-> outputs, JobFailures |-> [x \in {} |-> 0]]

Snapshot(jobs, outputs, failures) ==
    [Jobs |-> jobs, JobOutputs |-> outputs, JobFailures |-> failures]

NodeSet(job) == {job.Graph.Nodes[k] : k \in 1..Len(job.Graph.Nodes)}

\* -------------------------------------------------------- scheduler.go
\* Mutant of inDegree: the edges that leave the node are counted.
inDegree_OutDegree(job, nodeID) ==
    Cardinality({k \in 1..Len(job.Graph.Edges) : job.Graph.Edges[k][1] = nodeID})

inDegree(job, nodeID) ==
    Cardinality({k \in 1..Len(job.Graph.Edges) : job.Graph.Edges[k][2] = nodeID})

\* Mutant of queueTask: the node is not marked RUNNING.
queueTask_NodeStatusKept(ms, jobID, nodeID, inputs, partID, totalParts) ==
    [TaskProgress |-> IF jobID \in DOMAIN ms.TaskProgress
                      THEN [ms.TaskProgress EXCEPT ![jobID][nodeID][partID] = "SCHEDULED"]
                      ELSE ms.TaskProgress,
     JobProgress |-> ms.JobProgress,
     TaskQueue |-> Append(ms.TaskQueue,
                          [ID |-> ms.nextId, JobID |-> jobID, NodeID |-> nodeID,
                           InputFiles |-> inputs, PartitionID |-> partID,
                           TotalPartitions |-> totalParts, Attempt |-> 1]),
     nextId |-> ms.nextId + 1]

\* ms is the part of the master state that queueTask writes:
\* [TaskProgress, JobProgress, TaskQueue, nextId]
queueTask(ms, jobID, nodeID, inputs, partID, totalParts) ==
    [TaskProgress |-> setPartitionStatus(ms.TaskProgress, jobID, nodeID, partID, "SCHEDULED"),
     JobProgress |-> setNodeStatus(ms.JobProgress, jobID, nodeID, "RUNNING"),
     TaskQueue |-> Append(ms.TaskQueue,
                          Task(ms.nextId, jobID, nodeID, inputs, partID, totalParts, 1)),
     nextId |-> ms.nextId + 1]

\* The two nested loops of ScheduleSourceTasks, from iteration k on
\* (k counts the pairs node, partition in loop order).
RECURSIVE ScheduleSourcesFrom(_, _, _, _)
ScheduleSourcesFrom(ms, jobID, job, k) ==
    LET p == Parallelism(job)
        nodeID == job.Graph.Nodes[(k \div p) + 1]
    IN IF k >= Len(job.Graph.Nodes) * p
       THEN ms
       ELSE ScheduleSourcesFrom(
                IF inDegree(job, nodeID) = 0
                THEN queueTask(ms, jobID, nodeID, <<>>, k % p, p)
                ELSE ms,
                jobID, job, k + 1)

ParentEdges(job, nodeID) ==
    SelectSeq(job.Graph.Edges, LAMBDA e : e[2] = nodeID)

\* Mutant of AllParentsDone: only the first incoming edge is looked at.
AllParentsDone_FirstEdgeOnly(tp, jobID, job, nodeID, i) ==
    \A k \in 1..Len(ParentEdges(job, nodeID)) :
        k = 1 => getPartitionStatus(tp, jobID, ParentEdges(job, nodeID)[k][1], i) = "COMPLETED"

\* The inner loop over the edges: false at the first parent whose partition i
\* is not COMPLETED.
AllParentsDone(tp, jobID, job, nodeID, i) ==
    \A k \in 1..Len(ParentEdges(job, nodeID)) :
        getPartitionStatus(tp, jobID, ParentEdges(job, nodeID)[k][1], i) = "COMPLETED"

\* inputFiles when the edge loop ran to its end: one entry per parent that has
\* an entry in JobPartitionOutputs[job]; a missing partition reads as "".
InputFiles(jpo, jobID, job, nodeID, i) ==
    LET withOutputs == SelectSeq(ParentEdges(job, nodeID),
                                 LAMBDA e : e[1] \in DOMAIN MapGet(jpo, jobID, EmptyMap))
    IN [k \in 1..Len(withOutputs) |-> MapGet(jpo[jobID][withOutputs[k][1]], i, "")]

\* CheckAndScheduleDependents without the test `status != "PENDING"`: a
\* partition whose parents are done is queued whatever its own status.
RECURSIVE CheckAndScheduleDependentsFrom_AnyStatus(_, _, _, _, _)
CheckAndScheduleDependentsFrom_AnyStatus(ms, jpo, jobID, job, k) ==
    LET p == Parallelism(job)
        nodeID == job.Graph.Nodes[(k \div p) + 1]
        i == k % p
        hasParents == Len(ParentEdges(job, nodeID)) > 0
    IN IF k >= Len(job.Graph.Nodes) * p
       THEN ms
       ELSE CheckAndScheduleDependentsFrom_AnyStatus(
                IF /\ hasParents
                   /\ AllParentsDone(ms.TaskProgress, jobID, job, nodeID, i)
                THEN queueTask(ms, jobID, nodeID,
                               InputFiles(jpo, jobID, job, nodeID, i), i, p)
                ELSE ms,
                jpo, jobID, job, k + 1)

CheckAndScheduleDependents_AnyStatus(ms, jpo, jobID, job) ==
    CheckAndScheduleDependentsFrom_AnyStatus(ms, jpo, jobID, job, 0)

RECURSIVE CheckAndScheduleDependentsFrom(_, _, _, _, _)
CheckAndScheduleDependentsFrom(ms, jpo, jobID, job, k) ==
    LET p == Parallelism(job)
        nodeID == job.Graph.Nodes[(k \div p) + 1]
        i == k % p
        hasParents == Len(ParentEdges(job, nodeID)) > 0
    IN IF k >= Len(job.Graph.Nodes) * p
       THEN ms
       ELSE CheckAndScheduleDependentsFrom(
                IF /\ getPartitionStatus(ms.TaskProgress, jobID, nodeID, i) = "PENDING"
                   /\ hasParents
                   /\ AllParentsDone(ms.TaskProgress, jobID, job, nodeID, i)
                THEN queueTask(ms, jobID, nodeID,
                               InputFiles(jpo, jobID, job, nodeID, i), i, p)
                ELSE ms,
                jpo, jobID, job, k + 1)

CheckAndScheduleDependents(ms, jpo, jobID, job) ==
    CheckAndScheduleDependentsFrom(ms, jpo, jobID, job, 0)

AllPartitionsCompleted(tp, jobID, job) ==
    \A n \in NodeSet(job) : \A i \in 0..(Parallelism(job) - 1) :
        getPartitionStatus(tp, jobID, n, i) = "COMPLETED"

\* CheckJobCompletion: the job record it leaves.
CheckJobCompletion(tp, jobID, job) ==
    IF AllPartitionsCompleted(tp, jobID, job)
    THEN [job EXCEPT !.Status = "COMPLETED", !.Completed = TRUE]
    ELSE job

\* -------------------------------------------------------------- state.go
\* InitJobProgress: the four maps it writes.
InitJobProgress(jobID, job) ==
    [JobProgress |->
        MapSet(JobProgress, jobID,
               [n \in (DOMAIN MapGet(JobProgress, jobID, EmptyMap)) \cup NodeSet(job) |->
                   IF n \in NodeSet(job) THEN "PENDING" ELSE JobProgress[jobID][n]]),
     TaskProgress |->
        MapSet(TaskProgress, jobID,
               [n \in (DOMAIN MapGet(TaskProgress, jobID, EmptyMap)) \cup NodeSet(job) |->
                   IF n \in NodeSet(job)
                   THEN [i \in 0..(Parallelism(job) - 1) |-> "PENDING"]
                   ELSE TaskProgress[jobID][n]]),
     JobPartitionOutputs |->
        MapSet(JobPartitionOutputs, jobID, MapGet(JobPartitionOutputs, jobID, EmptyMap)),
     JobFailures |-> MapSet(JobFailures, jobID, MapGet(JobFailures, jobID, 0))]

\* NewMaster, and the workers not started.
NoAssign == [worker |-> "", up |-> {}]

\* No results query is between its two parts; nothing was answered yet.
NoQuery == [jobID |-> "", exists |-> FALSE, outputs |-> EmptyMap, jobs |-> {}]

NoResponse == [code |-> "", JobID |-> "", Outputs |-> EmptyMap]

InitMaster(p) ==
    /\ Workers = EmptyMap
    /\ Jobs = EmptyMap
    /\ JobProgress = EmptyMap
    /\ JobOutputs = EmptyMap
    /\ JobFailures = EmptyMap
    /\ JobPartitionOutputs = EmptyMap
    /\ TaskProgress = EmptyMap
    /\ TaskQueue = <<>>
    /\ TaskAssignments = EmptyMap
    /\ RunningTasks = EmptyMap
    /\ rrIndex = 0
    /\ stateFile = Snapshot(EmptyMap, EmptyMap, EmptyMap)
    /\ nextId = 1
    /\ sourcesPending = {}
    /\ senders = {}
    /\ sleeping = <<>>
    /\ posts = {}
    /\ proc = [w \in WorkerIds |-> "new"]
    /\ accepted = [w \in WorkerIds |-> {}]
    /\ plan = p
    /\ mu = ""
    /\ fanout = [job |-> "", k |-> 0]
    /\ held = <<>>
    /\ lastReport = NoReport
    /\ faults = 0
    /\ requeued = {}
    /\ query = NoQuery
    /\ answer = NoResponse
    /\ lastAssign = NoAssign

DefaultSpillThreshold == 1000

NoTask == [JobID |-> "", NodeID |-> "", Op |-> "", Fn |-> "", Args |-> <<>>,
           InputFiles |-> <<>>]

\* No task is looked at with its files.
IdleWorker ==
    /\ opTask = NoTask
    /\ opFiles = EmptyMap
    /\ opIO = "ok"
    /\ SpillThreshold = DefaultSpillThreshold
    /\ opReport = [Status |-> "", Result |-> <<>>, ErrorMsg |-> ""]

InitWith(p) == InitMaster(p) /\ IdleWorker

\* Any execution may succeed or fail.
FreePlan == [free |-> TRUE, node |-> "a", part |-> 0, until |-> 0]

\* The tasks of one partition fail on their first `until` attempts (0: never;
\* MaxRetries: always); every other execution succeeds.
FixedPlans ==
    {[free |-> FALSE, node |-> n, part |-> i, until |-> u] :
        n \in {"a", "b"}, i \in 0..(MaxParallelism - 1), u \in {0, MaxRetries - 1, MaxRetries}}

Init == InitWith(FreePlan)

InitCalm == \E p \in FixedPlans : InitWith(p)

workerSide == <<proc, accepted, faults>>

\* ---------------------------------------------------------------- api.go
SubmitJob(jobID, dag, parallelism) ==
        LET job == [Status |-> "RUNNING", Graph |-> dag,
                    Parallelism |-> parallelism, Completed |-> FALSE]
            ip == InitJobProgress(jobID, job)
        IN /\ Jobs' = MapSet(Jobs, jobID, job)
           /\ JobProgress' = ip.JobProgress
           /\ TaskProgress' = ip.TaskProgress
           /\ JobPartitionOutputs' = ip.JobPartitionOutputs
           /\ JobFailures' = ip.JobFailures
           /\ stateFile' = Snapshot(Jobs', JobOutputs, JobFailures')
           /\ sourcesPending' = sourcesPending \cup {jobID}
           /\ lastReport' = NoReport
           /\ UNCHANGED <<Workers, JobOutputs, TaskQueue, TaskAssignments, RunningTasks,
                          rrIndex, nextId, senders, sleeping, posts, workerSide, plan, lockVars, opVars, queryVars, histVars,
                          requeued>>

\* The job id is a fresh uuid.
SubmitJobHandler(dag, parallelism) ==
    \E jobID \in JobIds \ DOMAIN Jobs : SubmitJob(jobID, dag, parallelism)

\* The port a worker process listens on, and the address its requests come
\* from when nothing else is said.
Port(w) == IF w = "w1" THEN "9001" ELSE "9002"

HomeHost == "127.0.0.1"

\* Hosts a request can come from: the two loopback addresses, a LAN address,
\* and "" for a RemoteAddr that SplitHostPort cannot split.
Hosts == {"127.0.0.1", "::1", "10.0.0.2", ""}

\* Metrics are only stored, never read by the master logic: two values.
ZeroMetrics == "m0"

MetricsValues == {"m0", "m1"}

\* Mutant of workerURL: the loopback addresses are not normalised.
workerURL_Raw(host, port) == <<"http", host, port>>

\* workerURL of RegisterHandler: http://host:port, with localhost for the
\* loopback addresses and for an address that cannot be split.
workerURL(host, port) ==
    <<"http", IF host \in {"", "::1", "127.0.0.1"} THEN "localhost" ELSE host, port>>

\* Mutant of RegisteredWorker: a worker that is DOWN stays DOWN.
RegisteredWorker_KeepsStatus(old, id, host) ==
    [Status |-> IF old.Status = "DOWN" THEN "DOWN" ELSE "UP", Late |-> FALSE,
     URL |-> workerURL(host, Port(id)), Metrics |-> ZeroMetrics]

\* The WorkerInfo RegisterHandler stores, whatever the registry held (old)
\* under the id.
RegisteredWorker(old, id, host) ==
    [Status |-> "UP", Late |-> FALSE, URL |-> workerURL(host, Port(id)),
     Metrics |-> ZeroMetrics]

\* The registry entry a worker id has, or the zero WorkerInfo.
WorkerEntry(id) ==
    MapGet(Workers, id, [Status |-> "", Late |-> FALSE, URL |-> <<>>, Metrics |-> ZeroMetrics])

\* RegisterHandler for a request of the process of worker w, started by it if
\* it was not running, that reaches the master from host.
RegisterHandler(w, host) ==
    /\ proc[w] \in {"new", "alive"}
    /\ proc' = [proc EXCEPT ![w] = "alive"]
    /\ Workers' = MapSet(Workers, w, RegisteredWorker(WorkerEntry(w), w, host))
    /\ lastReport' = NoReport
    /\ UNCHANGED <<Jobs, JobProgress, JobOutputs, JobFailures, JobPartitionOutputs,
                   TaskProgress, TaskQueue, TaskAssignments, RunningTasks, rrIndex,
                   stateFile, nextId, sourcesPending, senders, sleeping, posts,
                   accepted, faults, plan, lockVars, opVars, queryVars, histVars, requeued>>

\* Mutant of HeartbeatWorker: the metrics of the heartbeat are dropped.
HeartbeatWorker_MetricsKept(worker, metrics) ==
    [worker EXCEPT !.Late = FALSE, !.Status = "UP"]

\* The three assignments HeartbeatHandler makes to a registered worker.
HeartbeatWorker(worker, metrics) ==
    [worker EXCEPT !.Late = FALSE, !.Status = "UP", !.Metrics = metrics]

\* HeartbeatHandler for a heartbeat of the process of worker w: an id the
\* registry does not hold is ignored.
HeartbeatHandler(w, metrics) ==
    /\ proc[w] = "alive"
    /\ Workers' = IF w \in DOMAIN Workers
                  THEN [Workers EXCEPT ![w] = HeartbeatWorker(Workers[w], metrics)]
                  ELSE Workers
    /\ lastReport' = NoReport
    /\ UNCHANGED <<Jobs, JobProgress, JobOutputs, JobFailures, JobPartitionOutputs,
                   TaskProgress, TaskQueue, TaskAssignments, RunningTasks, rrIndex,
                   stateFile, nextId, sourcesPending, senders, sleeping, posts,
                   workerSide, plan, lockVars, opVars, queryVars, histVars, requeued>>

\* Mutant of RetryTask: the attempt counter is not bumped.
RetryTask_SameAttempt(originalTask, id) ==
    [originalTask EXCEPT !.ID = id]

\* The retry of a FAILED task: attempt bumped, fresh id.
RetryTask(originalTask, id) ==
    [originalTask EXCEPT !.Attempt = @ + 1, !.ID = id]

\* Mutant of ShouldRetry: one retry too many.
ShouldRetry_OffByOne(taskFound, attempt) ==
    taskFound /\ attempt <= MaxRetries

\* The condition under which a FAILED report is retried.
ShouldRetry(taskFound, attempt) ==
    taskFound /\ attempt < MaxRetries

\* Mutant of isNodeDone: only partition 0 is looked at.
isNodeDone_FirstPartitionOnly(tp, jobID, nodeID, job) ==
    getPartitionStatus(tp, jobID, nodeID, 0) = "COMPLETED"

\* The loop of CompleteTaskHandler over the partitions of the reported node.
isNodeDone(tp, jobID, nodeID, job) ==
    \A i \in 0..(Parallelism(job) - 1) :
        getPartitionStatus(tp, jobID, nodeID, i) = "COMPLETED"

\* CompleteTaskHandler on report res: the master variables it leaves.
CompleteTaskHandler(res) ==
    LET taskFound == res.ID \in DOMAIN RunningTasks
        originalTask == RunningTasks[res.ID]
        jobKnown == res.JobID \in DOMAIN Jobs
    IN
    /\ TaskAssignments' = MapDelete(TaskAssignments, res.ID)
    /\ RunningTasks' = MapDelete(RunningTasks, res.ID)
    /\ requeued' = requeued \ {res.ID}
    /\ IF res.Status = "FAILED"
       THEN /\ JobFailures' = MapSet(JobFailures, res.JobID,
                                     MapGet(JobFailures, res.JobID, 0) + 1)
            /\ IF ShouldRetry(taskFound, IF taskFound THEN originalTask.Attempt ELSE 0)
               THEN /\ nextId <= MaxTaskId
                    /\ senders' = senders \cup {RetryTask(originalTask, nextId)}
                    /\ nextId' = nextId + 1
                    /\ Jobs' = Jobs
               ELSE /\ Jobs' = IF jobKnown
                               THEN [Jobs EXCEPT ![res.JobID].Status = "FAILED",
                                                 ![res.JobID].Completed = TRUE]
                               ELSE Jobs
                    /\ UNCHANGED <<senders, nextId>>
            /\ stateFile' = Snapshot(Jobs', JobOutputs, JobFailures')
            /\ UNCHANGED <<JobProgress, JobOutputs, JobPartitionOutputs, TaskProgress,
                           TaskQueue>>
       ELSE LET tp1 == setPartitionStatus(TaskProgress, res.JobID, res.NodeID,
                                          res.PartitionID, "COMPLETED")
                jp1 == IF jobKnown /\ isNodeDone(tp1, res.JobID, res.NodeID, Jobs[res.JobID])
                       THEN setNodeStatus(JobProgress, res.JobID, res.NodeID, "COMPLETED")
                       ELSE JobProgress
                jpo1 == MapSet(JobPartitionOutputs, res.JobID,
                               MapSet(MapGet(JobPartitionOutputs, res.JobID, EmptyMap),
                                      res.NodeID,
                                      MapSet(MapGet(MapGet(JobPartitionOutputs, res.JobID,
                                                           EmptyMap),
                                                    res.NodeID, EmptyMap),
                                             res.PartitionID, res.Result)))
                jo1 == MapSet(JobOutputs, res.JobID,
                              MapSet(MapGet(JobOutputs, res.JobID, EmptyMap),
                                     res.NodeID, res.Result))
                ms0 == [TaskProgress |-> tp1, JobProgress |-> jp1,
                        TaskQueue |-> TaskQueue, nextId |-> nextId]
                ms1 == IF jobKnown
                       THEN CheckAndScheduleDependents(ms0, jpo1, res.JobID, Jobs[res.JobID])
                       ELSE ms0
                job1 == CheckJobCompletion(ms1.TaskProgress, res.JobID, Jobs[res.JobID])
            IN /\ ms1.nextId <= MaxTaskId + 1
               /\ Len(ms1.TaskQueue) <= QueueCap
               /\ TaskProgress' = ms1.TaskProgress
               /\ JobProgress' = ms1.JobProgress
               /\ TaskQueue' = ms1.TaskQueue
               /\ nextId' = ms1.nextId
               /\ JobPartitionOutputs' = jpo1
               /\ JobOutputs' = jo1
               /\ Jobs' = IF jobKnown THEN [Jobs EXCEPT ![res.JobID] = job1] ELSE Jobs
               /\ stateFile' = Snapshot(Jobs', jo1, JobFailures)
               /\ UNCHANGED <<JobFailures, senders>>
    /\ UNCHANGED <<Workers, rrIndex, sourcesPending, sleeping, posts>>

\* -------------------------------------------------------- scheduler.go
ScheduleSourceTasks(jobID) ==
    /\ jobID \in sourcesPending
    /\ LET ms0 == [TaskProgress |-> TaskProgress, JobProgress |-> JobProgress,
                   TaskQueue |-> TaskQueue, nextId |-> nextId]
           ms1 == ScheduleSourcesFrom(ms0, jobID, Jobs[jobID], 0)
       IN /\ ms1.nextId <= MaxTaskId + 1
          /\ Len(ms1.TaskQueue) <= QueueCap
          /\ TaskProgress' = ms1.TaskProgress
          /\ JobProgress' = ms1.JobProgress
          /\ TaskQueue' = ms1.TaskQueue
          /\ nextId' = ms1.nextId
    /\ sourcesPending' = sourcesPending \ {jobID}
    /\ lastReport' = NoReport
    /\ UNCHANGED <<Workers, Jobs, JobOutputs, JobFailures, JobPartitionOutputs,
                   TaskAssignments, RunningTasks, rrIndex, stateFile, senders, sleeping,
                   posts, workerSide, plan, lockVars, opVars, queryVars, histVars, requeued>>

\* The orders in which ranging over the Workers map can visit the set S.
Orders(S) ==
    {f \in [1..Cardinality(S) -> S] : \A a, b \in 1..Cardinality(S) : f[a] = f[b] => a = b}

\* The locked region of SchedulerLoop for the task it has received: no UP
\* worker, so the task is kept for the backoff, or the round-robin choice,
\* the two table entries and the start of sendTask.
\* The assignment step without the entry in RunningTasks.
AssignTask_AssignmentOnly(task) ==
    LET up == {w \in DOMAIN Workers : Workers[w].Status = "UP"}
    IN IF up = {}
       THEN /\ sleeping' = <<task>>
            /\ UNCHANGED <<TaskAssignments, RunningTasks, rrIndex, posts>>
       ELSE \E availableWorkers \in Orders(up) :
               LET worker == availableWorkers[(rrIndex % Len(availableWorkers)) + 1]
               IN /\ rrIndex' = (rrIndex + 1) % RRPeriod
                  /\ TaskAssignments' = MapSet(TaskAssignments, task.ID, worker)
                  /\ RunningTasks' = RunningTasks
                  /\ posts' = posts \cup {[worker |-> worker, task |-> task]}
                  /\ sleeping' = sleeping

AssignTask(task) ==
    LET up == {w \in DOMAIN Workers : Workers[w].Status = "UP"}
    IN IF up = {}
       THEN /\ sleeping' = <<task>>
            /\ UNCHANGED <<TaskAssignments, RunningTasks, rrIndex, posts>>
       ELSE \E availableWorkers \in Orders(up) :
               LET worker == availableWorkers[(rrIndex % Len(availableWorkers)) + 1]
               IN /\ rrIndex' = (rrIndex + 1) % RRPeriod
                  /\ TaskAssignments' = MapSet(TaskAssignments, task.ID, worker)
                  /\ RunningTasks' = MapSet(RunningTasks, task.ID, task)
                  /\ posts' = posts \cup {[worker |-> worker, task |-> task]}
                  /\ sleeping' = sleeping

\* One iteration of SchedulerLoop, up to the backoff sleep or the dispatch.
SchedulerStep ==
    /\ sleeping = <<>>
    /\ TaskQueue # <<>>
    /\ AssignTask(Head(TaskQueue))
    /\ TaskQueue' = Tail(TaskQueue)
    /\ lastReport' = NoReport
    /\ UNCHANGED <<Workers, Jobs, JobProgress, JobOutputs, JobFailures,
                   JobPartitionOutputs, TaskProgress, stateFile, nextId, sourcesPending,
                   senders, workerSide, plan, lockVars, opVars, queryVars, requeued>>

SchedulerLoop == SchedulerStep /\ UNCHANGED histVars

\* The same iteration with the observer noting the assignment: the worker
\* the task was given to and the workers that were UP.
SchedulerLoopObserved ==
    /\ SchedulerStep
    /\ lastAssign' =
          LET up == {w \in DOMAIN Workers : Workers[w].Status = "UP"}
          IN IF up = {} THEN lastAssign
             ELSE [worker |-> TaskAssignments'[Head(TaskQueue).ID], up |-> up]

\* The end of the 2 s backoff: the scheduler puts the task back.
SchedulerBackoff ==
    /\ sleeping # <<>>
    /\ Len(TaskQueue) < QueueCap
    /\ TaskQueue' = Append(TaskQueue, sleeping[1])
    /\ sleeping' = <<>>
    /\ lastReport' = NoReport
    /\ UNCHANGED <<Workers, Jobs, JobProgress, JobOutputs, JobFailures,
                   JobPartitionOutputs, TaskProgress, TaskAssignments, RunningTasks,
                   rrIndex, stateFile, nextId, sourcesPending, senders, posts,
                   workerSide, plan, lockVars, opVars, queryVars, histVars, requeued>>

\* A goroutine started with go func(t) { m.TaskQueue <- t } completes its send.
SendToQueue(t) ==
    /\ t \in senders
    /\ Len(TaskQueue) < QueueCap
    /\ TaskQueue' = Append(TaskQueue, t)
    /\ senders' = senders \ {t}
    /\ lastReport' = NoReport
    /\ UNCHANGED <<Workers, Jobs, JobProgress, JobOutputs, JobFailures,
                   JobPartitionOutputs, TaskProgress, TaskAssignments, RunningTasks,
                   rrIndex, stateFile, nextId, sourcesPending, sleeping, posts,
                   workerSide, plan, lockVars, opVars, queryVars, histVars, requeued>>

\* sendTask: the POST is answered 2xx by a live worker, which accepts the task
\* (TaskHandler), or is answered with another status by a live worker, which
\* does not take the task (TaskHandler answers 400 to a body it cannot decode),
\* or fails with an error. Only err != nil makes sendTask clear the assignment
\* and put the task back; the status code of the response is not read.
sendTask(p, response) ==
    /\ p \in posts
    /\ posts' = posts \ {p}
    /\ response \in (IF proc[p.worker] = "alive" THEN {"2xx", "non2xx"} ELSE {"error"})
    /\ response = "non2xx" => faults < MaxFaults
    /\ faults' = IF response = "non2xx" THEN faults + 1 ELSE faults
    /\ CASE response = "2xx" ->
               /\ accepted' = [accepted EXCEPT ![p.worker] =
                                  @ \cup {[task |-> p.task, status |-> "NEW", tries |-> 0]}]
               /\ UNCHANGED <<TaskAssignments, TaskQueue>>
         [] response = "non2xx" ->
               UNCHANGED <<accepted, TaskAssignments, TaskQueue>>
         [] response = "error" ->
               /\ Len(TaskQueue) < QueueCap
               /\ TaskAssignments' = MapDelete(TaskAssignments, p.task.ID)
               /\ TaskQueue' = Append(TaskQueue, p.task)
               /\ accepted' = accepted
    /\ lastReport' = NoReport
    /\ UNCHANGED <<Workers, Jobs, JobProgress, JobOutputs, JobFailures,
                   JobPartitionOutputs, TaskProgress, RunningTasks, rrIndex, stateFile,
                   nextId, sourcesPending, senders, sleeping, proc, plan, lockVars, opVars, queryVars, histVars,
                   requeued>>

\* Mutant of OrphanTask: the task keeps the id it had on the dead worker.
OrphanTask_SameId(task, id) ==
    task

\* The task orphan recovery re-queues: the running-table copy under a fresh id.
OrphanTask(task, id) ==
    [task EXCEPT !.ID = id]

\* Mutant of IsDead: the age of the last heartbeat is not looked at.
IsDead_AnyUpWorker(worker) == worker.Status = "UP"

\* The test of HealthCheckLoop: UP and the last heartbeat more than 10 s old.
IsDead(worker) == worker.Status = "UP" /\ worker.Late

\* One pass of HealthCheckLoop in which at least one worker is declared DOWN.
HealthCheckLoop ==
    LET dead == {w \in DOMAIN Workers : IsDead(Workers[w])}
        lost == {tID \in DOMAIN TaskAssignments :
                    TaskAssignments[tID] \in dead /\ tID \in DOMAIN RunningTasks}
        fresh(tID) == nextId + Cardinality({x \in lost : x < tID})
    IN /\ dead # {}
       /\ nextId + Cardinality(lost) <= MaxTaskId + 1
       /\ Workers' = [w \in DOMAIN Workers |->
                        IF w \in dead THEN [Workers[w] EXCEPT !.Status = "DOWN"]
                        ELSE Workers[w]]
       /\ TaskAssignments' = [tID \in (DOMAIN TaskAssignments) \ lost |-> TaskAssignments[tID]]
       /\ RunningTasks' = [tID \in (DOMAIN RunningTasks) \ lost |-> RunningTasks[tID]]
       /\ senders' = senders \cup {OrphanTask(RunningTasks[tID], fresh(tID)) : tID \in lost}
       /\ nextId' = nextId + Cardinality(lost)
       /\ requeued' = (requeued \ lost) \cup {fresh(tID) : tID \in lost}
       /\ lastReport' = NoReport
       /\ UNCHANGED <<Jobs, JobProgress, JobOutputs, JobFailures, JobPartitionOutputs,
                      TaskProgress, TaskQueue, rrIndex, stateFile, sourcesPending,
                      sleeping, posts, workerSide, plan, lockVars, opVars, queryVars, histVars>>

\* ------------------------------------------------------------ executor.go
OutputDir(w) == "out"

\* outputFile of ExecuteTask.
OutputFile(w, task) == <<OutputDir(w), task.JobID, task.NodeID>>

\* The TaskResult reportCompletion builds: it names no partition, so the
\* PartitionID field keeps its zero value.
Report(w, task, status) ==
    TaskResult(task.ID, task.JobID, task.NodeID, 0, status, OutputFile(w, task))

\* The results an execution of the task can have under the fault plan.
Outcomes(task) ==
    IF plan.free THEN {"COMPLETED", "FAILED"}
    ELSE IF /\ task.NodeID = plan.node
            /\ task.PartitionID = plan.part
            /\ task.Attempt <= plan.until
         THEN {"FAILED"}
         ELSE {"COMPLETED"}

\* ExecuteTask followed by one POST of reportCompletion, handled by the master.
\* responseLost: the master handled the report but the POST returned an error,
\* so reportCompletion posts the same report again.
ExecuteTask(w, e, status, responseLost) ==
    /\ proc[w] = "alive"
    /\ e \in accepted[w]
    /\ status \in (IF e.status = "NEW" THEN Outcomes(e.task) ELSE {e.status})
    /\ responseLost => (e.tries + 1 < ReportTries /\ e.tries < MaxRepost /\ faults < MaxFaults)
    /\ faults' = IF responseLost THEN faults + 1 ELSE faults
    /\ accepted' = [accepted EXCEPT ![w] =
                       (@ \ {e}) \cup
                       (IF responseLost
                        THEN {[e EXCEPT !.status = status, !.tries = @ + 1]}
                        ELSE {})]
    /\ lastReport' = [res |-> Report(w, e.task, status), attempt |-> e.task.Attempt,
                      part |-> e.task.PartitionID,
                      found |-> e.task.ID \in DOMAIN RunningTasks]
    /\ CompleteTaskHandler(Report(w, e.task, status))
    /\ UNCHANGED <<proc, plan, lockVars, opVars, queryVars, histVars>>

\* ----------------------------------------------- operators.go, executor.go
\* A line is a sequence of one-character strings, a file a sequence of lines,
\* a path a tuple of strings.
In1 == <<"in1">>
In2 == <<"in2">>

\* strings.SplitN(s, ",", 2)
IndexComma(s) ==
    IF \E i \in 1..Len(s) : s[i] = ","
    THEN CHOOSE i \in 1..Len(s) : s[i] = "," /\ \A k \in 1..(i - 1) : s[k] # ","
    ELSE 0

SplitN2(s) ==
    IF IndexComma(s) = 0
    THEN <<s>>
    ELSE <<SubSeq(s, 1, IndexComma(s) - 1), SubSeq(s, IndexComma(s) + 1, Len(s))>>

Digits == <<"0", "1", "2", "3", "4", "5", "6", "7", "8", "9">>

IsDigit(c) == \E d \in 1..Len(Digits) : Digits[d] = c

DigitValue(c) == (CHOOSE d \in 1..Len(Digits) : Digits[d] = c) - 1

\* fmt's %d of a non-negative int.
RECURSIVE Itoa(_)
Itoa(n) ==
    IF n < Len(Digits)
    THEN <<Digits[n + 1]>>
    ELSE Itoa(n \div Len(Digits)) \o <<Digits[(n % Len(Digits)) + 1]>>

IsSpace(c) == c = " "

RECURSIVE TrimLeft(_)
TrimLeft(s) == IF s # <<>> /\ IsSpace(s[1]) THEN TrimLeft(Tail(s)) ELSE s

RECURSIVE TrimRight(_)
TrimRight(s) ==
    IF s # <<>> /\ IsSpace(s[Len(s)]) THEN TrimRight(SubSeq(s, 1, Len(s) - 1)) ELSE s

\* strings.TrimSpace
TrimSpace(s) == TrimRight(TrimLeft(s))

\* The value of a run of digits read from the left, acc being the value so far.
RECURSIVE ScanDigits(_, _)
ScanDigits(s, acc) ==
    IF s # <<>> /\ IsDigit(s[1])
    THEN ScanDigits(Tail(s), acc * Len(Digits) + DigitValue(s[1]))
    ELSE acc

\* var val int; fmt.Sscanf(s, "%d", &val): leading spaces are skipped, a sign
\* is accepted, the digits that follow are the value and what comes after
\* them is not read; without a digit Sscanf fails and val keeps its zero.
Sscanf(s) ==
    LET t == TrimLeft(s)
        signed == t # <<>> /\ t[1] \in {"+", "-"}
        body == IF signed THEN Tail(t) ELSE t
    IN IF body = <<>> \/ ~IsDigit(body[1]) THEN 0
       ELSE IF signed /\ t[1] = "-" THEN 0 - ScanDigits(body, 0)
       ELSE ScanDigits(body, 0)

\* The letters of the model alphabet that have an upper case.
ToLowerChar(c) == IF c = "A" THEN "a" ELSE IF c = "B" THEN "b" ELSE c

\* MapFunctions["to_lower"]
to_lower(s) == [i \in 1..Len(s) |-> ToLowerChar(s[i])]

\* MapFunctions["to_json"]
to_json(s) ==
    LET parts == SplitN2(s)
        q == "\""
    IN IF Len(parts) < 2
       THEN <<"{", "}">>
       ELSE <<"{", q, "k", "e", "y", q, ":", " ", q>> \o TrimSpace(parts[1])
            \o <<q, ",", " ", q, "v", "a", "l", "u", "e", q, ":", " ", q>>
            \o TrimSpace(parts[2]) \o <<q, "}">>

\* FilterFunctions["long_words"]
long_words(s) == Len(s) > 4

\* strings.Fields, cur being the field read so far.
RECURSIVE Fields(_, _)
Fields(s, cur) ==
    IF s = <<>> THEN (IF cur = <<>> THEN <<>> ELSE <<cur>>)
    ELSE IF IsSpace(s[1])
         THEN (IF cur = <<>> THEN <<>> ELSE <<cur>>) \o Fields(Tail(s), <<>>)
         ELSE Fields(Tail(s), Append(cur, s[1]))

\* FlatMapFunctions["tokenize"]
tokenize(s) ==
    Fields(SelectSeq(s, LAMBDA c : c \notin {".", ",", ";", "?", "!", "-"}), <<>>)

MapFunctions == {"to_lower", "to_json"}
FilterFunctions == {"long_words"}
FlatMapFunctions == {"tokenize"}

\* The result of an operator: its error ("" for nil), whether it created
\* the output file, and what the file holds. A file written by ranging over
\* a map holds the set `unordered` in some order, any other the sequence
\* `lines`.
OpResult(err, created, lines, unordered) ==
    [err |-> err, created |-> created, lines |-> lines, unordered |-> unordered]

OpError(err) == OpResult(err, FALSE, <<>>, {})

\* What os.Create followed by the writes and Flush gives: the error of a
\* write comes out of Flush, which writes nothing when nothing is buffered.
WriteLines(io, lines) ==
    IF io = "createFails" THEN OpError("create")
    ELSE IF io = "writeFails" /\ lines # <<>> THEN OpResult("write", TRUE, <<>>, {})
    ELSE OpResult("", TRUE, lines, {})

\* The lines the loop over the inputs scans: an input that cannot be opened
\* is skipped.
RECURSIVE ScanInputs(_, _)
ScanInputs(inputs, files) ==
    IF inputs = <<>> THEN <<>>
    ELSE (IF Head(inputs) \in DOMAIN files THEN files[Head(inputs)] ELSE <<>>)
         \o ScanInputs(Tail(inputs), files)

RECURSIVE Flatten(_)
Flatten(ss) == IF ss = <<>> THEN <<>> ELSE Head(ss) \o Flatten(Tail(ss))

ReadCSV(inputPath, files, io) ==
    IF inputPath \notin DOMAIN files THEN OpError("open")
    ELSE WriteLines(io, files[inputPath])

Map(inputs, fnName, files, io) ==
    IF fnName \notin MapFunctions THEN OpError("fn map")
    ELSE LET scanned == ScanInputs(inputs, files)
         IN WriteLines(io, [i \in 1..Len(scanned) |->
                               IF fnName = "to_lower" THEN to_lower(scanned[i])
                               ELSE to_json(scanned[i])])

FlatMap(inputs, fnName, files, io) ==
    IF fnName \notin FlatMapFunctions THEN OpError("fn flat_map")
    ELSE LET scanned == ScanInputs(inputs, files)
         IN WriteLines(io, Flatten([i \in 1..Len(scanned) |-> tokenize(scanned[i])]))

Filter(inputs, fnName, files, io) ==
    IF fnName \notin FilterFunctions THEN OpError("fn filter")
    ELSE WriteLines(io, SelectSeq(ScanInputs(inputs, files), long_words))

\* counts[k] += v
AddCount(counts, k, v) == MapSet(counts, k, MapGet(counts, k, 0) + v)

RECURSIVE CountLines(_, _)
CountLines(lines, counts) ==
    IF lines = <<>> THEN counts
    ELSE CountLines(Tail(lines), AddCount(counts, Head(lines), 1))

\* The lines of the final file: "%s, %d\n" for every key of the map.
CountOutput(counts) == {k \o <<",", " ">> \o Itoa(counts[k]) : k \in DOMAIN counts}

WriteCounts(io, counts) ==
    IF io = "createFails" THEN OpError("create")
    ELSE IF io = "writeFails" /\ counts # EmptyMap THEN OpResult("write", TRUE, <<>>, {})
    ELSE OpResult("", TRUE, <<>>, CountOutput(counts))

ReduceByKey(inputs, files, io) ==
    WriteCounts(io, CountLines(ScanInputs(inputs, files), EmptyMap))

\* dumpSpill: the lines of the spill file, "%s,%d\n" for every key.
dumpSpill(data) == {k \o <<",">> \o Itoa(data[k]) : k \in DOMAIN data}

\* Phase 1 of opReduceByKeyWithSpill from line i on: the counts left in
\* memory and the spill files written, or the error of dumpSpill.
RECURSIVE ReadAndSpill(_, _, _, _, _, _)
ReadAndSpill(lines, i, counts, spillFiles, threshold, io) ==
    IF i > Len(lines)
    THEN [err |-> "", counts |-> counts, spillFiles |-> spillFiles]
    ELSE LET c1 == AddCount(counts, lines[i], 1)
         IN IF Cardinality(DOMAIN c1) >= threshold
            THEN IF io # "ok"
                 THEN [err |-> IF io = "createFails" THEN "create" ELSE "write",
                       counts |-> c1, spillFiles |-> spillFiles]
                 ELSE ReadAndSpill(lines, i + 1, EmptyMap,
                                   Append(spillFiles, dumpSpill(c1)), threshold, io)
            ELSE ReadAndSpill(lines, i + 1, c1, spillFiles, threshold, io)

\* Mutant of MergeLine: the line is split at its last comma.
MergeLine_LastComma(counts, line) ==
    LET commas == {i \in 1..Len(line) : line[i] = ","}
        last == CHOOSE i \in commas : \A k \in commas : k <= i
    IN IF commas = {} THEN counts
       ELSE AddCount(counts, SubSeq(line, 1, last - 1),
                     Sscanf(SubSeq(line, last + 1, Len(line))))

\* Phase 2 for one line of a spill file.
MergeLine(counts, line) ==
    LET parts == SplitN2(line)
    IN IF Len(parts) = 2
       THEN AddCount(counts, parts[1], Sscanf(parts[2]))
       ELSE counts

\* Phase 2 for one spill file; the additions commute, so the order in which
\* dumpSpill wrote the lines plays no part.
RECURSIVE MergeSpill(_, _)
MergeSpill(counts, spill) ==
    IF spill = {} THEN counts
    ELSE LET line == CHOOSE l \in spill : TRUE
         IN MergeSpill(MergeLine(counts, line), spill \ {line})

RECURSIVE MergeSpills(_, _)
MergeSpills(counts, spillFiles) ==
    IF spillFiles = <<>> THEN counts
    ELSE MergeSpills(MergeSpill(counts, Head(spillFiles)), Tail(spillFiles))

opReduceByKeyWithSpill(inputs, files, threshold, io) ==
    LET phase1 == ReadAndSpill(ScanInputs(inputs, files), 1, EmptyMap, <<>>, threshold, io)
    IN IF phase1.err # "" THEN OpError(phase1.err)
       ELSE WriteCounts(io, MergeSpills(phase1.counts, phase1.spillFiles))

\* leftMap of Join: a later line of the left file replaces an earlier one
\* with the same key.
RECURSIVE LeftMap(_, _)
LeftMap(lines, m) ==
    IF lines = <<>> THEN m
    ELSE LET parts == SplitN2(Head(lines))
         IN LeftMap(Tail(lines),
                    IF Len(parts) = 2 THEN MapSet(m, parts[1], parts[2]) ELSE m)

RECURSIVE JoinRight(_, _)
JoinRight(lines, leftMap) ==
    IF lines = <<>> THEN <<>>
    ELSE LET parts == SplitN2(Head(lines))
         IN (IF Len(parts) = 2 /\ parts[1] \in DOMAIN leftMap
             THEN <<parts[1] \o <<",", " ">> \o leftMap[parts[1]] \o <<",", " ">>
                    \o parts[2]>>
             ELSE <<>>)
            \o JoinRight(Tail(lines), leftMap)

Join(leftFile, rightFile, files, io) ==
    IF leftFile \notin DOMAIN files \/ rightFile \notin DOMAIN files THEN OpError("open")
    ELSE WriteLines(io, JoinRight(files[rightFile], LeftMap(files[leftFile], EmptyMap)))

\* The switch of ExecuteTask.
RunOp(t, files, threshold, io) ==
    CASE t.Op \in {"read_csv", "read_jsonl"} -> ReadCSV(t.Args[1], files, io)
      [] t.Op = "map" -> Map(t.InputFiles, t.Fn, files, io)
      [] t.Op = "flat_map" -> FlatMap(t.InputFiles, t.Fn, files, io)
      [] t.Op = "reduce_by_key" -> opReduceByKeyWithSpill(t.InputFiles, files, threshold, io)
      [] t.Op = "join" -> IF Len(t.InputFiles) >= 2
                          THEN Join(t.InputFiles[1], t.InputFiles[2], files, io)
                          ELSE OpError("join requiere 2 inputs")
      [] OTHER -> OpError("operacion desconocida")

NoOpReport == [Status |-> "", Result |-> <<>>, ErrorMsg |-> ""]

\* ExecuteTask of a worker on the task it was given: the operator runs on the
\* worker's files and the outcome is posted by reportCompletion.
WorkerExecuteTask ==
    /\ opReport = NoOpReport
    /\ opTask.Op # ""
    /\ LET outputFile == OutputFile("w1", opTask)
           r == RunOp(opTask, opFiles, SpillThreshold, opIO)
       IN /\ \E written \in (IF r.unordered = {} THEN {r.lines} ELSE Orders(r.unordered)) :
                opFiles' = IF r.created THEN MapSet(opFiles, outputFile, written) ELSE opFiles
          /\ opReport' = [Status |-> IF r.err # "" THEN "FAILED" ELSE "COMPLETED",
                          Result |-> outputFile, ErrorMsg |-> r.err]
    /\ UNCHANGED <<masterVars, proc, accepted, plan, faults, lastReport, requeued,
                   lockVars, opTask, opIO, SpillThreshold, queryVars, histVars>>

\* The tasks and files a worker is looked at with.
MaxLines == 3

Ops == {"read_csv", "read_jsonl", "map", "flat_map", "filter", "reduce_by_key",
        "join", "sort"}

\* The UDF names a node of each kind is submitted with: the registered ones
\* and one that is not.
FnNames(op) ==
    CASE op = "map" -> MapFunctions \cup {"nope"}
      [] op = "flat_map" -> FlatMapFunctions \cup {"nope"}
      [] op = "filter" -> FilterFunctions \cup {"nope"}
      [] OTHER -> {""}

LinesOf(op) ==
    CASE op = "reduce_by_key" ->
            {<<>>, <<"a">>, <<"b">>, <<"a", ",", "b">>, <<"a", ",", "1">>}
      [] op = "filter" ->
            {<<>>, <<"a", "a", "a", "a">>, <<"a", "a", "a", "a", "a">>,
             <<"b", "b", "b", "b", "b", "b">>}
      [] op = "join" ->
            {<<"a", ",", "1">>, <<"a", ",", "2">>, <<"b", ",", "1">>, <<"a">>}
      [] OTHER ->
            {<<"A">>, <<"a", ",", " ", "B">>, <<"a", " ", "b", ".">>}

SeqsUpTo(S, n) == UNION {[1..k -> S] : k \in 0..n}

\* What the two input paths hold: in1 up to MaxLines lines (one less for the
\* operators that do not count), in2 at most one line, or no file.
FileSystems(op) ==
    LET n == IF op = "reduce_by_key" THEN MaxLines ELSE MaxLines - 1
        absent == [present |-> FALSE, lines |-> <<>>]
        c1s == {[present |-> TRUE, lines |-> l] : l \in SeqsUpTo(LinesOf(op), n)}
        c2s == {[present |-> TRUE, lines |-> l] : l \in SeqsUpTo(LinesOf(op), 1)}
    IN {[path \in {p \in {In1, In2} : (IF p = In1 THEN c1 ELSE c2).present} |->
            (IF path = In1 THEN c1 ELSE c2).lines] :
        c1 \in c1s \cup {absent}, c2 \in c2s \cup {absent}}

\* A source node carries a path and gets no input files; any other node gets
\* the outputs of its parents.
InitOps ==
    /\ InitMaster(FreePlan)
    /\ \E op \in Ops :
          /\ \E fn \in FnNames(op), inputs \in {<<In1>>, <<In1, In2>>} :
                opTask = [JobID |-> "j1", NodeID |-> "a", Op |-> op, Fn |-> fn,
                          Args |-> IF op \in {"read_csv", "read_jsonl"}
                                   THEN <<In1>> ELSE <<(<<>>)>>,
                          InputFiles |-> IF op \in {"read_csv", "read_jsonl"}
                                         THEN <<>> ELSE inputs]
          /\ opFiles \in FileSystems(op)
          /\ SpillThreshold \in (IF op = "reduce_by_key"
                                  THEN {1, 2, DefaultSpillThreshold}
                                  ELSE {DefaultSpillThreshold})
    /\ opIO \in {"ok", "createFails", "writeFails"}
    /\ opReport = NoOpReport

NextOps == WorkerExecuteTask

SpecOps == InitOps /\ [][NextOps]_vars

\* ------------------------------------------------------------ environment
\* More than 10 s pass without a heartbeat of worker w reaching the master:
\* what happens to a dead worker, and a fault when the worker is alive.
HeartbeatTimeout(w) ==
    /\ w \in DOMAIN Workers
    /\ Workers[w].Status = "UP"
    /\ ~Workers[w].Late
    /\ proc[w] = "alive" => faults < MaxFaults
    /\ faults' = IF proc[w] = "alive" THEN faults + 1 ELSE faults
    /\ Workers' = [Workers EXCEPT ![w].Late = TRUE]
    /\ lastReport' = NoReport
    /\ UNCHANGED <<Jobs, JobProgress, JobOutputs, JobFailures, JobPartitionOutputs,
                   TaskProgress, TaskQueue, TaskAssignments, RunningTasks, rrIndex,
                   stateFile, nextId, sourcesPending, senders, sleeping, posts,
                   proc, accepted, plan, lockVars, opVars, queryVars, histVars, requeued>>

\* The worker process is killed: the tasks it was executing die with it.
KillWorker(w) ==
    /\ proc[w] = "alive"
    /\ faults < MaxFaults
    /\ faults' = faults + 1
    /\ proc' = [proc EXCEPT ![w] = IF accepted[w] = {} THEN "dead" ELSE "deadMidTask"]
    /\ accepted' = [accepted EXCEPT ![w] = {}]
    /\ lastReport' = NoReport
    /\ UNCHANGED <<masterVars, plan, lockVars, opVars, queryVars, histVars, requeued>>

\* ---------------------------------------------------- state.go, restart
\* LoadState on a fresh Master: the progress maps it rebuilds for the jobs of
\* the snapshot (InitJobProgress on empty maps, then COMPLETED for every node
\* and partition of a job whose status is COMPLETED).
\* Mutant of LoadedStatus: the progress of a COMPLETED job is not restored.
LoadedStatus_AlwaysPending(job) == "PENDING"

LoadedStatus(job) == IF job.Status = "COMPLETED" THEN "COMPLETED" ELSE "PENDING"

\* LoadState without the inner loop over the partitions of a COMPLETED job:
\* the nodes are marked, TaskProgress stays as InitJobProgress left it.
LoadState_NodesOnly(snap) ==
    [Jobs |-> snap.Jobs,
     JobOutputs |-> snap.JobOutputs,
     JobFailures |-> [j \in (DOMAIN snap.Jobs) \cup (DOMAIN snap.JobFailures) |->
                        MapGet(snap.JobFailures, j, 0)],
     JobProgress |-> [j \in DOMAIN snap.Jobs |->
                        [n \in NodeSet(snap.Jobs[j]) |-> LoadedStatus(snap.Jobs[j])]],
     TaskProgress |-> [j \in DOMAIN snap.Jobs |->
                         [n \in NodeSet(snap.Jobs[j]) |->
                             [i \in 0..(Parallelism(snap.Jobs[j]) - 1) |-> "PENDING"]]],
     JobPartitionOutputs |-> [j \in DOMAIN snap.Jobs |-> EmptyMap]]

LoadState(snap) ==
    [Jobs |-> snap.Jobs,
     JobOutputs |-> snap.JobOutputs,
     JobFailures |-> [j \in (DOMAIN snap.Jobs) \cup (DOMAIN snap.JobFailures) |->
                        MapGet(snap.JobFailures, j, 0)],
     JobProgress |-> [j \in DOMAIN snap.Jobs |->
                        [n \in NodeSet(snap.Jobs[j]) |-> LoadedStatus(snap.Jobs[j])]],
     TaskProgress |-> [j \in DOMAIN snap.Jobs |->
                         [n \in NodeSet(snap.Jobs[j]) |->
                             [i \in 0..(Parallelism(snap.Jobs[j]) - 1) |->
                                 LoadedStatus(snap.Jobs[j])]]],
     JobPartitionOutputs |-> [j \in DOMAIN snap.Jobs |-> EmptyMap]]

\* The master process stops and is started again: main runs NewMaster and
\* LoadState. Workers, queue, tables and goroutines of the old process are
\* gone; the worker processes keep running and keep reporting.
MasterRestart ==
    /\ faults < MaxFaults
    /\ faults' = faults + 1
    /\ LET m == LoadState(stateFile)
       IN /\ Jobs' = m.Jobs
          /\ JobOutputs' = m.JobOutputs
          /\ JobFailures' = m.JobFailures
          /\ JobProgress' = m.JobProgress
          /\ TaskProgress' = m.TaskProgress
          /\ JobPartitionOutputs' = m.JobPartitionOutputs
    /\ Workers' = EmptyMap
    /\ TaskQueue' = <<>>
    /\ TaskAssignments' = EmptyMap
    /\ RunningTasks' = EmptyMap
    /\ rrIndex' = 0
    /\ sourcesPending' = {}
    /\ senders' = {}
    /\ sleeping' = <<>>
    /\ posts' = {}
    /\ requeued' = {}
    /\ lastReport' = NoReport
    /\ UNCHANGED <<stateFile, nextId, proc, accepted, plan, lockVars, opVars, queryVars, histVars>>

\* ------------------------------------------- the mutex, step by step
\* The actions above take a whole locked region as one step, which is exact
\* as long as the queue has room for every send made inside it. The actions
\* below follow ScheduleSourceTasks and SchedulerLoop statement by statement,
\* for jobs with more partitions than the queue holds.

\* ScheduleSourceTasks takes the mutex (m.mu.Lock(); defer m.mu.Unlock()).
ScheduleSourceTasksLock(jobID) ==
    /\ jobID \in sourcesPending
    /\ mu = ""
    /\ mu' = "ScheduleSourceTasks"
    /\ fanout' = [job |-> jobID, k |-> 0]
    /\ sourcesPending' = sourcesPending \ {jobID}
    /\ lastReport' = NoReport
    /\ UNCHANGED <<Workers, Jobs, JobProgress, JobOutputs, JobFailures,
                   JobPartitionOutputs, TaskProgress, TaskQueue, TaskAssignments,
                   RunningTasks, rrIndex, stateFile, nextId, senders, sleeping, posts,
                   workerSide, plan, requeued, opVars, queryVars, histVars, held>>

\* One iteration of its loops: for a source node, queueTask, whose send
\* m.TaskQueue <- task waits for room in the queue with the mutex held.
ScheduleSourceTasksStep ==
    /\ mu = "ScheduleSourceTasks"
    /\ LET job == Jobs[fanout.job]
           p == Parallelism(job)
           nodeID == job.Graph.Nodes[(fanout.k \div p) + 1]
           ms0 == [TaskProgress |-> TaskProgress, JobProgress |-> JobProgress,
                   TaskQueue |-> TaskQueue, nextId |-> nextId]
           ms1 == IF inDegree(job, nodeID) = 0
                  THEN queueTask(ms0, fanout.job, nodeID, <<>>, fanout.k % p, p)
                  ELSE ms0
       IN /\ fanout.k < Len(job.Graph.Nodes) * p
          /\ Len(ms1.TaskQueue) <= QueueCap
          /\ TaskProgress' = ms1.TaskProgress
          /\ JobProgress' = ms1.JobProgress
          /\ TaskQueue' = ms1.TaskQueue
          /\ nextId' = ms1.nextId
    /\ fanout' = [fanout EXCEPT !.k = @ + 1]
    /\ lastReport' = NoReport
    /\ UNCHANGED <<Workers, Jobs, JobOutputs, JobFailures, JobPartitionOutputs,
                   TaskAssignments, RunningTasks, rrIndex, stateFile, sourcesPending,
                   senders, sleeping, posts, workerSide, plan, requeued, opVars, queryVars, histVars, mu, held>>

\* The loops are over: the deferred Unlock runs.
ScheduleSourceTasksUnlock ==
    /\ mu = "ScheduleSourceTasks"
    /\ fanout.k >= Len(Jobs[fanout.job].Graph.Nodes) * Parallelism(Jobs[fanout.job])
    /\ mu' = ""
    /\ fanout' = [job |-> "", k |-> 0]
    /\ lastReport' = NoReport
    /\ UNCHANGED <<masterVars, workerSide, plan, requeued, opVars, queryVars, histVars, held>>

\* for task := range m.TaskQueue: the receive, made without the mutex.
SchedulerReceive ==
    /\ held = <<>>
    /\ sleeping = <<>>
    /\ TaskQueue # <<>>
    /\ held' = <<Head(TaskQueue)>>
    /\ TaskQueue' = Tail(TaskQueue)
    /\ lastReport' = NoReport
    /\ UNCHANGED <<Workers, Jobs, JobProgress, JobOutputs, JobFailures,
                   JobPartitionOutputs, TaskProgress, TaskAssignments, RunningTasks,
                   rrIndex, stateFile, nextId, sourcesPending, senders, sleeping, posts,
                   workerSide, plan, requeued, opVars, queryVars, histVars, mu, fanout>>

\* The locked region of SchedulerLoop, entered once the mutex is free.
SchedulerLocked ==
    /\ held # <<>>
    /\ mu = ""
    /\ AssignTask(held[1])
    /\ held' = <<>>
    /\ lastReport' = NoReport
    /\ UNCHANGED <<Workers, Jobs, JobProgress, JobOutputs, JobFailures,
                   JobPartitionOutputs, TaskProgress, TaskQueue, stateFile, nextId,
                   sourcesPending, senders, workerSide, plan, requeued, opVars, queryVars, histVars, mu, fanout>>

\* Job sizes around the capacity of the queue.
BigParallelism == {1, QueueCap + 1, QueueCap + 2}

\* One worker is enough here: which worker gets a task plays no part.
LockWorkers == {"w1"}

NextLock ==
    \/ \E dag \in Dags, parallelism \in BigParallelism :
          mu = "" /\ SubmitJobHandler(dag, parallelism)
    \/ \E jobID \in JobIds : ScheduleSourceTasksLock(jobID)
    \/ ScheduleSourceTasksStep
    \/ ScheduleSourceTasksUnlock
    \/ SchedulerReceive
    \/ SchedulerLocked
    \/ SchedulerBackoff
    \/ \E w \in LockWorkers : mu = "" /\ proc[w] = "new" /\ RegisterHandler(w, HomeHost)

SpecLock == Init /\ [][NextLock]_vars

\* ------------------------------------------------------------ specification
Next ==
    \/ \E dag \in Dags, parallelism \in 0..MaxParallelism :
          /\ Len(dag.Nodes) * parallelism <= MaxJobSize
          /\ SubmitJobHandler(dag, parallelism)
    \/ \E jobID \in JobIds : ScheduleSourceTasks(jobID)
    \/ \E w \in WorkerIds : proc[w] = "new" /\ RegisterHandler(w, HomeHost)
    \/ \E w \in WorkerIds :
          /\ w \in DOMAIN Workers
          /\ Workers[w].Status # "UP" \/ Workers[w].Late
          /\ HeartbeatHandler(w, ZeroMetrics)
    \/ SchedulerLoop
    \/ SchedulerBackoff
    \/ \E t \in senders : SendToQueue(t)
    \/ \E p \in posts, response \in {"2xx", "non2xx", "error"} : sendTask(p, response)
    \/ \E w \in WorkerIds : \E e \in accepted[w] :
          \E status \in {"COMPLETED", "FAILED"}, responseLost \in BOOLEAN :
             ExecuteTask(w, e, status, responseLost)
    \/ HealthCheckLoop
    \/ \E w \in WorkerIds : HeartbeatTimeout(w)
    \/ \E w \in WorkerIds : KillWorker(w)

Spec == Init /\ [][Next]_vars

\* The same, with restarts of the master.
NextRestart ==
    \/ Next
    \/ MasterRestart

SpecRestart == Init /\ [][NextRestart]_vars

\* The scenario without faults: no worker dies, no heartbeat is late, every
\* report is answered, and the executions follow a fixed plan.
NextCalm ==
    \/ \E dag \in Dags, parallelism \in 0..MaxParallelism :
          /\ Len(dag.Nodes) * parallelism <= MaxJobSize
          /\ SubmitJobHandler(dag, parallelism)
    \/ \E jobID \in JobIds : ScheduleSourceTasks(jobID)
    \/ \E w \in WorkerIds : proc[w] = "new" /\ RegisterHandler(w, HomeHost)
    \/ SchedulerLoop
    \/ SchedulerBackoff
    \/ \E t \in senders : SendToQueue(t)
    \/ \E p \in posts : sendTask(p, "2xx")
    \/ \E w \in WorkerIds : \E e \in accepted[w] :
          \E status \in {"COMPLETED", "FAILED"} : ExecuteTask(w, e, status, FALSE)

SpecCalm == InitCalm /\ [][NextCalm]_vars

\* The cluster with its registry traffic: registrations repeated by a running
\* worker, from any address; heartbeats with any metrics, also from workers
\* the master does not know (it was restarted); late heartbeats, dead
\* workers, health checks. Jobs have one partition per node; the address and
\* the metrics vary for the workers of RoamingWorkers.
RoamingWorkers == {"w1"}

NextRegistry ==
    \/ \E dag \in {DagSingle, DagChain} : SubmitJobHandler(dag, 1)
    \/ \E jobID \in JobIds : ScheduleSourceTasks(jobID)
    \/ \E w \in WorkerIds, host \in Hosts :
          /\ (proc[w] = "new" \/ w \notin RoamingWorkers) => host = HomeHost
          /\ RegisterHandler(w, host)
    \/ \E w \in WorkerIds, metrics \in MetricsValues :
          /\ w \notin RoamingWorkers => metrics = ZeroMetrics
          /\ HeartbeatHandler(w, metrics)
    \/ SchedulerLoop
    \/ SchedulerBackoff
    \/ \E t \in senders : SendToQueue(t)
    \/ \E p \in posts, response \in {"2xx", "error"} : sendTask(p, response)
    \/ \E w \in WorkerIds : \E e \in accepted[w] :
          \E status \in {"COMPLETED", "FAILED"} : ExecuteTask(w, e, status, FALSE)
    \/ HealthCheckLoop
    \/ \E w \in WorkerIds : HeartbeatTimeout(w)
    \/ \E w \in WorkerIds : KillWorker(w)
    \/ MasterRestart

SpecRegistry == Init /\ [][NextRegistry]_vars

\* Job requests that are not DAGs: an edge from a node that is not declared,
\* an edge to a node that is not declared, a cycle behind a source.
DagUnknownParent == [Nodes |-> <<"a", "b">>, Edges |-> <<(<<"x", "b">>)>>]
DagUnknownChild == [Nodes |-> <<"a">>, Edges |-> <<(<<"a", "x">>)>>]
DagCycle == [Nodes |-> <<"a", "b", "c">>,
             Edges |-> <<(<<"a", "b">>), (<<"b", "c">>), (<<"c", "b">>)>>]
InvalidDags == {DagUnknownParent, DagUnknownChild, DagCycle}

\* The scenario without faults of the cluster, for any job request.
NextSubmit ==
    \/ \E dag \in Dags \cup InvalidDags, parallelism \in 1..MaxParallelism :
          /\ Len(dag.Nodes) * parallelism <= MaxJobSize
          /\ SubmitJobHandler(dag, parallelism)
    \/ \E jobID \in JobIds : ScheduleSourceTasks(jobID)
    \/ \E w \in WorkerIds : proc[w] = "new" /\ RegisterHandler(w, HomeHost)
    \/ SchedulerLoop
    \/ SchedulerBackoff
    \/ \E t \in senders : SendToQueue(t)
    \/ \E p \in posts : sendTask(p, "2xx")
    \/ \E w \in WorkerIds : \E e \in accepted[w] :
          \E status \in {"COMPLETED", "FAILED"} : ExecuteTask(w, e, status, FALSE)

SpecSubmit == Init /\ [][NextSubmit]_vars

\* -------------------------------------------------------------- api.go
\* The fields of the answer of GetJobStatusHandler for a known job.
GetJobStatusHandler(jobID) ==
    [Status |-> Jobs[jobID].Status,
     NodeStatus |-> MapGet(JobProgress, jobID, EmptyMap),
     Failures |-> MapGet(JobFailures, jobID, 0)]

\* The Outputs field of the answer of GetJobResultsHandler, computed from the
\* Jobs and JobOutputs maps of a master: the recorded path of every node
\* without outgoing edge.
GetJobResultsHandler(jobs, outputs, jobID) ==
    LET graph == jobs[jobID].Graph
        outDegree(n) == Cardinality({k \in 1..Len(graph.Edges) : graph.Edges[k][1] = n})
        outs == MapGet(outputs, jobID, EmptyMap)
    IN [n \in {x \in NodeSet(jobs[jobID]) : outDegree(x) = 0 /\ x \in DOMAIN outs} |->
           outs[n]]

\* The results query in its two parts. The first runs under m.mu: it looks
\* the job up and copies the job's outputs (api.go 195-204).
GetJobResultsLocked(jobID) ==
    /\ query = NoQuery
    /\ query' = [jobID |-> jobID, exists |-> jobID \in DOMAIN Jobs,
                 outputs |-> MapGet(JobOutputs, jobID, EmptyMap), jobs |-> DOMAIN Jobs]
    /\ answer' = NoResponse
    /\ UNCHANGED <<masterVars, proc, accepted, plan, faults, lastReport, requeued,
                   lockVars, opVars, histVars>>

\* The outcomes of reading the map m.Jobs without the mutex: the read returns
\* the entry, or, if a submission wrote the map since the mutex was released,
\* the Go runtime may stop the process ("concurrent map read and map write").
MapReadOutcomes(jobsAtUnlock) ==
    IF DOMAIN Jobs = jobsAtUnlock THEN {"read"} ELSE {"read", "fatal"}

\* The second part runs after m.mu.Unlock(): not found for an unknown job,
\* else the graph is read from m.Jobs[jobID] and the sinks are answered
\* (api.go 206-229).
GetJobResultsUnlocked(outcome) ==
    /\ query # NoQuery
    /\ outcome \in (IF query.exists THEN MapReadOutcomes(query.jobs) ELSE {"read"})
    /\ answer' =
          IF ~query.exists THEN [code |-> "404", JobID |-> query.jobID, Outputs |-> EmptyMap]
          ELSE IF outcome = "fatal"
          THEN [code |-> "fatal", JobID |-> query.jobID, Outputs |-> EmptyMap]
          ELSE [code |-> "200", JobID |-> query.jobID,
                Outputs |-> GetJobResultsHandler(Jobs, MapSet(EmptyMap, query.jobID, query.outputs),
                                                 query.jobID)]
    /\ query' = NoQuery
    /\ UNCHANGED <<masterVars, proc, accepted, plan, faults, lastReport, requeued,
                   lockVars, opVars, histVars>>

\* The master with results queries: two jobs can be submitted, so that a
\* submission can come between the two parts of a query. Nothing runs after
\* the runtime has stopped the process.
QueryJobIds == {"j1", "j2"}

MasterUp == answer.code # "fatal"

NextQuery ==
    \/ MasterUp /\ \E dag \in {DagSingle, DagChain} :
          \E jobID \in QueryJobIds \ DOMAIN Jobs : SubmitJob(jobID, dag, 1)
    \/ MasterUp /\ \E jobID \in QueryJobIds : ScheduleSourceTasks(jobID)
    \/ MasterUp /\ \E w \in {"w1"} : proc[w] = "new" /\ RegisterHandler(w, HomeHost)
    \/ MasterUp /\ SchedulerLoop
    \/ MasterUp /\ \E p \in posts : sendTask(p, "2xx")
    \/ MasterUp /\ \E w \in WorkerIds : \E e \in accepted[w] :
          ExecuteTask(w, e, "COMPLETED", FALSE)
    \/ MasterUp /\ \E jobID \in QueryJobIds : GetJobResultsLocked(jobID)
    \/ MasterUp /\ \E outcome \in {"read", "fatal"} : GetJobResultsUnlocked(outcome)

SpecQuery == Init /\ [][NextQuery]_vars

\* The master with workers that register and stay UP, and the observed
\* scheduler.
NextRR ==
    \/ \E dag \in {DagSingle, DagChain}, parallelism \in 1..MaxParallelism :
          SubmitJobHandler(dag, parallelism)
    \/ \E jobID \in JobIds : ScheduleSourceTasks(jobID)
    \/ \E w \in WorkerIds : proc[w] = "new" /\ RegisterHandler(w, HomeHost)
    \/ SchedulerLoopObserved
    \/ SchedulerBackoff
    \/ \E p \in posts : sendTask(p, "2xx")
    \/ \E w \in WorkerIds : \E e \in accepted[w] : ExecuteTask(w, e, "COMPLETED", FALSE)

SpecRR == Init /\ [][NextRR]_vars

\* ------------------------------------------------------------ vocabulary
Range(f) == {f[x] : x \in DOMAIN f}

\* Tasks the master holds: waiting for the queue, in it, held by the
\* scheduler, or in the running-task table.
MasterTasks ==
    senders \cup Range(TaskQueue) \cup Range(sleeping) \cup Range(RunningTasks)

\* Tasks on their way to a worker or accepted by a live worker and not yet run.
DispatchedTasks ==
    {p.task : p \in posts} \cup
    UNION {{e.task : e \in {x \in accepted[w] : x.status = "NEW"}} : w \in WorkerIds}

LiveTasks == MasterTasks \cup DispatchedTasks

SamePartition(t1, t2) ==
    /\ t1.JobID = t2.JobID
    /\ t1.NodeID = t2.NodeID
    /\ t1.PartitionID = t2.PartitionID

\* Nothing is left to do for the submitted job.
Quiescent ==
    /\ DOMAIN Jobs # {}
    /\ sourcesPending = {}
    /\ LiveTasks = {}
    /\ \A w \in WorkerIds : accepted[w] = {}
    /\ \E w \in DOMAIN Workers : Workers[w].Status = "UP"

\* ----------------------------------------------------------------- claims

\* C1: every task of a non-source node, wherever it is, is for a partition i
\* such that the master has recorded partition i of every parent COMPLETED.
C1_ChildAfterParents ==
    \A t \in LiveTasks :
        \A k \in 1..Len(Jobs[t.JobID].Graph.Edges) :
            Jobs[t.JobID].Graph.Edges[k][2] = t.NodeID =>
                getPartitionStatus(TaskProgress, t.JobID,
                                   Jobs[t.JobID].Graph.Edges[k][1], t.PartitionID)
                    = "COMPLETED"

\* C1 witness: a task of a node with two parents is in the queue.
C1_Witness ==
    \E k \in 1..Len(TaskQueue) :
        Len(ParentEdges(Jobs[TaskQueue[k].JobID], TaskQueue[k].NodeID)) = 2

\* C2 as stated: when every execution succeeds and nothing is left to do, the
\* job and all its nodes and partitions are COMPLETED.
C2_AllSucceedCompletes ==
    (Quiescent /\ plan.until = 0) =>
        \A j \in DOMAIN Jobs :
            /\ Jobs[j].Status = "COMPLETED"
            /\ \A n \in NodeSet(Jobs[j]) :
                  /\ JobProgress[j][n] = "COMPLETED"
                  /\ \A i \in 0..(Parallelism(Jobs[j]) - 1) :
                        getPartitionStatus(TaskProgress, j, n, i) = "COMPLETED"

\* C3 as stated: no two live tasks are for the same (job, node, partition).
C3_OneLiveTaskPerPartition ==
    \A t1, t2 \in LiveTasks : SamePartition(t1, t2) => t1.ID = t2.ID

\* C4 as stated: a FAILED job stays FAILED.
C4_FailedIsFinal ==
    [][\A j \in DOMAIN Jobs : Jobs[j].Status = "FAILED" => Jobs'[j].Status = "FAILED"]_vars

\* C5 as stated: a COMPLETED job stays COMPLETED.
C5_CompletedIsFinal ==
    [][\A j \in DOMAIN Jobs :
          Jobs[j].Status = "COMPLETED" => Jobs'[j].Status = "COMPLETED"]_vars


\* A FAILED report for a task found in the running table, below MaxRetries,
\* puts one new task on its way to the queue: attempt + 1, an id never used
\* before, the same job, node, partition and inputs.
RetryStep ==
    (/\ lastReport'.res.Status = "FAILED"
     /\ lastReport'.found
     /\ RunningTasks[lastReport'.res.ID].Attempt < MaxRetries)
    => \E t \in senders' \ senders :
          LET orig == RunningTasks[lastReport'.res.ID]
          IN /\ t.Attempt = orig.Attempt + 1
             /\ t.ID >= nextId
             /\ SamePartition(t, orig)
             /\ t.InputFiles = orig.InputFiles
             /\ senders' = senders \cup {t}

\* Orphan recovery re-queues each task of a worker it declares DOWN with the
\* attempt counter it had.
OrphanKeepsAttempt ==
    \A tID \in DOMAIN TaskAssignments :
        (/\ Workers[TaskAssignments[tID]].Status = "UP"
         /\ Workers'[TaskAssignments[tID]].Status = "DOWN"
         /\ tID \in DOMAIN RunningTasks)
        => \E t \in senders' \ senders :
              /\ SamePartition(t, RunningTasks[tID])
              /\ t.Attempt = RunningTasks[tID].Attempt

\* A failed dispatch POST puts the same task record back on the queue.
DispatchFailureKeepsAttempt ==
    \A p \in posts \ posts' :
        proc[p.worker] # "alive" =>
            TaskQueue' = Append(TaskQueue, p.task)

AttemptBound == \A t \in LiveTasks : t.Attempt \in 1..MaxRetries

\* C6: retry bumps the attempt by one under a fresh id and keeps job, node,
\* partition and inputs; no task has an attempt above MaxRetries; orphan
\* re-queue and dispatch-failure re-enqueue keep the attempt.
C6_RetryPolicy ==
    /\ []AttemptBound
    /\ [][RetryStep /\ OrphanKeepsAttempt /\ DispatchFailureKeepsAttempt]_vars

\* C6 witness: a FAILED report of a second attempt has just been retried.
C6_Witness ==
    /\ lastReport.res.Status = "FAILED"
    /\ lastReport.found
    /\ lastReport.attempt = 2
    /\ \E t \in senders : t.Attempt = 3

\* C7 as stated: the job becomes FAILED only in a step that handles the
\* FAILED report of a task on its MaxRetries-th attempt.
C7_FailedOnlyOnLastAttempt ==
    [][\A j \in DOMAIN Jobs :
          (Jobs[j].Status # "FAILED" /\ Jobs'[j].Status = "FAILED")
          => (/\ lastReport'.res.Status = "FAILED"
              /\ lastReport'.res.JobID = j
              /\ lastReport'.attempt = MaxRetries)]_vars

\* Tasks of the partition the plan makes fail.
PlannedTasks == {t \in LiveTasks : t.NodeID = plan.node /\ t.PartitionID = plan.part}

\* C8: when the tasks of a partition fail on every attempt, the job is FAILED
\* exactly from the third FAILED report on, with completed_at set and
\* failure_count >= 3; no fourth attempt exists; the status poll keeps
\* showing FAILED.
C8_ExhaustionInvariant ==
    plan.until = MaxRetries =>
        \A j \in DOMAIN Jobs :
            LET poll == GetJobStatusHandler(j)
            IN /\ poll.Failures <= MaxRetries
               /\ poll.Failures = MaxRetries
                     => /\ poll.Status = "FAILED"
                        /\ Jobs[j].Completed
                        /\ PlannedTasks = {}
               /\ poll.Failures < MaxRetries => poll.Status # "FAILED"
               /\ \A t \in LiveTasks : t.Attempt <= MaxRetries

\* C8: the exhaustion invariant holds in every state, and a status poll that
\* has shown FAILED shows FAILED in every later state.
C8_RetryExhaustion ==
    /\ []C8_ExhaustionInvariant
    /\ [][\A j \in DOMAIN Jobs :
             GetJobStatusHandler(j).Status = "FAILED" =>
                 GetJobStatusHandler(j).Status' = "FAILED"]_vars

\* C8 witness: the third FAILED report has been handled.
C8_Witness ==
    /\ plan.until = MaxRetries
    /\ lastReport.res.Status = "FAILED"
    /\ lastReport.attempt = MaxRetries
    /\ \E j \in DOMAIN Jobs : Jobs[j].Status = "FAILED" /\ JobFailures[j] = MaxRetries

\* C9 as stated: when one task fails on attempts 1 and 2 and succeeds on
\* attempt 3 and nothing is left to do, the job is COMPLETED with
\* failure_count >= 2 and the partition's recorded output is the path the
\* successful attempt reported.
C9_RetryToSuccess ==
    (Quiescent /\ plan.until = MaxRetries - 1) =>
        \A j \in DOMAIN Jobs :
            /\ Jobs[j].Status = "COMPLETED"
            /\ plan.node \in NodeSet(Jobs[j]) /\ plan.part < Parallelism(Jobs[j])
                  => /\ GetJobStatusHandler(j).Failures >= 2
                     /\ \E w \in DOMAIN Workers :
                           JobPartitionOutputs[j][plan.node][plan.part] =
                               <<OutputDir(w), j, plan.node>>

\* No assignment names a worker the master holds DOWN.
NoTaskOnDownWorker ==
    \A tID \in DOMAIN TaskAssignments :
        Workers[TaskAssignments[tID]].Status # "DOWN"

\* The step that declares a worker DOWN drops each assignment to it and puts
\* the task on its way to the queue under an id never used before, with the
\* same job, node, partition and attempt.
OrphanRequeued ==
    \A tID \in DOMAIN TaskAssignments :
        (/\ Workers[TaskAssignments[tID]].Status = "UP"
         /\ Workers'[TaskAssignments[tID]].Status = "DOWN")
        => /\ tID \notin DOMAIN TaskAssignments'
           /\ tID \in DOMAIN RunningTasks
           /\ \E t \in MasterTasks' :
                 /\ t.ID # tID
                 /\ t.ID >= nextId
                 /\ t.ID \in requeued'
                 /\ SamePartition(t, RunningTasks[tID])
                 /\ t.Attempt = RunningTasks[tID].Attempt

\* The re-queued task t is still held by the master after the step, under its
\* id or under the fresh id of a further orphan recovery.
StillLive(t) ==
    \E t2 \in MasterTasks' :
        /\ t2.ID \in requeued'
        /\ t2.ID = t.ID \/ t2.ID >= nextId
        /\ SamePartition(t2, t)
        /\ t2.Attempt = t.Attempt

\* Every id orphan recovery handed out and no report has consumed is the id of
\* a task the master holds.
RequeuedAreLive == \A id \in requeued : \E t \in MasterTasks : t.ID = id

C11_KilledWorkerJobCompletes ==
    (/\ Quiescent
     /\ \E w \in WorkerIds : proc[w] = "deadMidTask"
     /\ \E w \in DOMAIN Workers : proc[w] = "alive" /\ Workers[w].Status = "UP"
     /\ \A j \in DOMAIN Jobs : JobFailures[j] = 0)
    => \A j \in DOMAIN Jobs : Jobs[j].Status = "COMPLETED"

\* The dispatch POST of p ended in this step without the worker taking the task.
DispatchFailed(p) ==
    /\ p \in posts \ posts'
    /\ ~\E e \in accepted'[p.worker] \ accepted[p.worker] : e.task = p.task

\* C12 as stated: when a dispatch POST fails, by an error or by a non-2xx
\* answer, the task's assignment is removed and the same task record is put
\* back on the queue.
C12_DispatchFailureRequeues ==
    [][\A p \in posts :
          DispatchFailed(p) =>
              /\ p.task.ID \notin DOMAIN TaskAssignments'
              /\ TaskQueue' = Append(TaskQueue, p.task)]_vars

\* ScheduleSourceTasks holds the mutex and its next send finds the queue full.
SendBlockedUnderLock ==
    /\ mu = "ScheduleSourceTasks"
    /\ fanout.k < Len(Jobs[fanout.job].Graph.Nodes) * Parallelism(Jobs[fanout.job])
    /\ inDegree(Jobs[fanout.job],
                Jobs[fanout.job].Graph.Nodes[(fanout.k \div Parallelism(Jobs[fanout.job])) + 1]) = 0
    /\ Len(TaskQueue) >= QueueCap

\* C13 as stated: the master never deadlocks on a full queue: no state has a
\* send waiting for room in the queue with the mutex held while the
\* scheduler, the only receiver, waits for that mutex.
C13_NoDeadlockOnFullQueue ==
    ~(SendBlockedUnderLock /\ held # <<>>)

\* C14 as stated: the scheduler can always put the task it kept during the
\* backoff back on the queue, so no task waits for ever once a worker is UP.
C14_BackoffPutsTaskBack ==
    ~(/\ sleeping # <<>>
      /\ Len(TaskQueue) >= QueueCap
      /\ \E w \in DOMAIN Workers : Workers[w].Status = "UP")

\* C15 as stated: a report whose task id is no longer in the running table
\* (already reported, or replaced by a fresh id) schedules no retry and leaves
\* every job's status as it was.
C15_ReportConsumedOnce ==
    [][(lastReport'.res.Status \in {"COMPLETED", "FAILED"} /\ ~lastReport'.found)
          => /\ senders' = senders
             /\ \A j \in DOMAIN Jobs : Jobs'[j].Status = Jobs[j].Status]_vars

\* C16: every node and every partition of a COMPLETED job is COMPLETED.
C16_CompletedJobAllCompleted ==
    \A j \in DOMAIN Jobs :
        Jobs[j].Status = "COMPLETED" =>
            \A n \in NodeSet(Jobs[j]) :
                /\ MapGet(MapGet(JobProgress, j, EmptyMap), n, "") = "COMPLETED"
                /\ \A i \in 0..(Parallelism(Jobs[j]) - 1) :
                      getPartitionStatus(TaskProgress, j, n, i) = "COMPLETED"

\* C16 witness: a job with more than one node has completed and the master
\* has been restarted since (LoadState leaves no partition outputs).
C16_Witness ==
    \E j \in DOMAIN Jobs :
        /\ Jobs[j].Status = "COMPLETED"
        /\ Len(Jobs[j].Graph.Nodes) > 1
        /\ JobPartitionOutputs[j] = EmptyMap

NodeStatus(j, n) == MapGet(MapGet(JobProgress, j, EmptyMap), n, "")

PartitionStatuses(j, n) ==
    {getPartitionStatus(TaskProgress, j, n, i) : i \in 0..(Parallelism(Jobs[j]) - 1)}

\* C17: a node is COMPLETED exactly when all its P partitions are COMPLETED.
C17_NodeCompletedIffPartitions ==
    \A j \in DOMAIN Jobs : \A n \in NodeSet(Jobs[j]) :
        NodeStatus(j, n) = "COMPLETED" <=> PartitionStatuses(j, n) = {"COMPLETED"}

\* C17 witness: a node with a child is COMPLETED while the job is RUNNING.
C17_Witness ==
    \E j \in DOMAIN Jobs :
        /\ Jobs[j].Status = "RUNNING"
        /\ Len(Jobs[j].Graph.Edges) > 0
        /\ NodeStatus(j, Jobs[j].Graph.Edges[1][1]) = "COMPLETED"

\* C18 as stated: a node of a running job is RUNNING exactly when one of its
\* partitions is SCHEDULED and one of its partitions is not COMPLETED.
C18_NodeRunningIffScheduled ==
    \A j \in DOMAIN Jobs : \A n \in NodeSet(Jobs[j]) :
        Jobs[j].Status = "RUNNING" =>
            (NodeStatus(j, n) = "RUNNING" <=>
                /\ "SCHEDULED" \in PartitionStatuses(j, n)
                /\ PartitionStatuses(j, n) # {"COMPLETED"})

\* C18 with the scheduled partition allowed to have completed: a node of a
\* running job is RUNNING exactly when one of its partitions has been
\* scheduled (it is SCHEDULED or COMPLETED) and one is not COMPLETED.
C18_NodeRunningIffStarted ==
    \A j \in DOMAIN Jobs : \A n \in NodeSet(Jobs[j]) :
        Jobs[j].Status = "RUNNING" =>
            (NodeStatus(j, n) = "RUNNING" <=>
                /\ PartitionStatuses(j, n) \cap {"SCHEDULED", "COMPLETED"} # {}
                /\ PartitionStatuses(j, n) # {"COMPLETED"})

\* C18 witness: a RUNNING node of a running job whose partitions are one
\* COMPLETED and one PENDING.
C18_Witness ==
    \E j \in DOMAIN Jobs : \E n \in NodeSet(Jobs[j]) :
        /\ Jobs[j].Status = "RUNNING"
        /\ NodeStatus(j, n) = "RUNNING"
        /\ PartitionStatuses(j, n) = {"COMPLETED", "PENDING"}

\* failure_count never exceeds MaxRetries times the number of schedulable
\* partitions of the job.
FailureCountUpperBound ==
    \A j \in DOMAIN Jobs :
        GetJobStatusHandler(j).Failures
            <= MaxRetries * Len(Jobs[j].Graph.Nodes) * Parallelism(Jobs[j])

\* Every FAILED report handled for a job adds at least one to its
\* failure_count, and the count never decreases.
FailureCountCountsReports ==
    \A j \in DOMAIN Jobs :
        MapGet(JobFailures', j, 0) >=
            MapGet(JobFailures, j, 0) +
                (IF lastReport'.res.Status = "FAILED" /\ lastReport'.res.JobID = j
                 THEN 1 ELSE 0)

\* C19 as stated: failure_count is at least the number of FAILED reports
\* received for the job and at most 3 times its number of partitions.
C19_FailureCountBounds ==
    /\ []FailureCountUpperBound
    /\ [][FailureCountCountsReports]_vars

EndpointsDeclared(g) ==
    \A k \in 1..Len(g.Edges) :
        \A e \in 1..2 : \E n \in 1..Len(g.Nodes) : g.Nodes[n] = g.Edges[k][e]

\* b is reached from a by a path of at least one and at most n edges.
RECURSIVE Reaches(_, _, _, _)
Reaches(g, a, b, n) ==
    /\ n > 0
    /\ \E k \in 1..Len(g.Edges) :
          /\ g.Edges[k][1] = a
          /\ g.Edges[k][2] = b \/ Reaches(g, g.Edges[k][2], b, n - 1)

Acyclic(g) ==
    \A k \in 1..Len(g.Edges) : ~Reaches(g, g.Edges[k][1], g.Edges[k][1], Len(g.Edges))

ValidDag(g) == EndpointsDeclared(g) /\ Acyclic(g)

\* C21: a job request whose graph has an edge endpoint that is not a declared
\* node, or a cycle, is rejected: it is not in the job catalog, not in the
\* persisted snapshot, and no task exists for any of its nodes.
C21_InvalidJobRejected ==
    /\ \A j \in DOMAIN Jobs : ValidDag(Jobs[j].Graph)
    /\ \A j \in DOMAIN stateFile.Jobs : ValidDag(stateFile.Jobs[j].Graph)
    /\ \A t \in LiveTasks : t.JobID \in DOMAIN Jobs /\ ValidDag(Jobs[t.JobID].Graph)

\* The master state outside the worker registry.
masterButWorkers ==
    <<Jobs, JobProgress, JobOutputs, JobFailures, JobPartitionOutputs, TaskProgress,
      TaskQueue, TaskAssignments, RunningTasks, rrIndex, stateFile, nextId,
      sourcesPending, senders, sleeping, posts>>

\* C22: a heartbeat of a registered worker leaves that worker UP, with a
\* fresh heartbeat time and the metrics of the heartbeat; a heartbeat with an
\* id the registry does not hold creates no entry; either way every other
\* worker and the rest of the master state stay as they were.
C22_HeartbeatEffect ==
    [][\A w \in WorkerIds, metrics \in MetricsValues :
          HeartbeatHandler(w, metrics) =>
              /\ UNCHANGED masterButWorkers
              /\ DOMAIN Workers' = DOMAIN Workers
              /\ \A v \in DOMAIN Workers \ {w} : Workers'[v] = Workers[v]
              /\ w \in DOMAIN Workers =>
                    /\ Workers'[w].Status = "UP"
                    /\ ~Workers'[w].Late
                    /\ Workers'[w].Metrics = metrics
                    /\ Workers'[w].URL = Workers[w].URL]_vars

\* C22 witness: a registered worker carries the metrics of a heartbeat while
\* another worker is running that the master does not know.
C22_Witness ==
    /\ \E w \in DOMAIN Workers :
          Workers[w].Metrics # ZeroMetrics /\ Workers[w].Status = "UP" /\ ~Workers[w].Late
    /\ \E v \in WorkerIds \ DOMAIN Workers : proc[v] = "alive"

\* C23: a worker goes from UP to DOWN only in a pass of the health check and
\* only if its last heartbeat was more than 10 s old; it goes from DOWN to UP
\* only by a heartbeat or a registration with its id.
C23_StatusTransitions ==
    [][\A w \in (DOMAIN Workers) \cap (DOMAIN Workers') :
          /\ (Workers[w].Status = "UP" /\ Workers'[w].Status = "DOWN") =>
                 (HealthCheckLoop /\ Workers[w].Late)
          /\ (Workers[w].Status = "DOWN" /\ Workers'[w].Status = "UP") =>
                 \/ \E metrics \in MetricsValues : HeartbeatHandler(w, metrics)
                 \/ \E host \in Hosts : RegisterHandler(w, host)]_vars

\* C23 witness: the only registered worker was declared DOWN, which left
\* re-queued tasks behind, and is UP again.
C23_Witness ==
    /\ requeued # {}
    /\ \E w \in WorkerIds : DOMAIN Workers = {w} /\ Workers[w].Status = "UP"

\* C24: a registration with an id the registry holds leaves the worker UP,
\* with a fresh heartbeat time and the URL derived from this request, so
\* that the scheduler can pick it again; the queue, the two tables, the
\* re-queued tasks and all job state stay as they were.
C24_ReRegistration ==
    [][\A w \in DOMAIN Workers, host \in Hosts :
          RegisterHandler(w, host) =>
              /\ Workers'[w].Status = "UP"
              /\ ~Workers'[w].Late
              /\ Workers'[w].URL =
                    <<"http", IF host \in {"10.0.0.2"} THEN host ELSE "localhost", Port(w)>>
              /\ \A v \in DOMAIN Workers \ {w} : Workers'[v] = Workers[v]
              /\ UNCHANGED masterButWorkers
              /\ requeued' = requeued
              /\ \A t \in senders \cup Range(TaskQueue) :
                    t.ID \in requeued => t \in senders' \cup Range(TaskQueue')]_vars

\* C24 witness: the only registered worker was declared DOWN, its tasks were
\* re-queued, and it is UP under the URL of a later registration.
C24_Witness ==
    /\ requeued # {}
    /\ \E w \in WorkerIds :
          /\ DOMAIN Workers = {w}
          /\ Workers[w].Status = "UP"
          /\ Workers[w].URL = <<"http", "10.0.0.2", Port(w)>>
          /\ Workers[w].Metrics = ZeroMetrics

\* The recorded outputs of the nodes of a graph that no edge leaves.
SinkOutputs(graph, outs) ==
    [n \in {x \in Range(graph.Nodes) :
               /\ \A k \in 1..Len(graph.Edges) : graph.Edges[k][1] # x
               /\ x \in DOMAIN outs} |-> outs[n]]

\* C25: the results query of a job the master knows answers exactly the
\* nodes without outgoing edge that have a recorded output, each with the
\* recorded path; the query of an unknown job answers not found.
C25_ResultsQuery ==
    [][\A outcome \in {"read", "fatal"} :
          GetJobResultsUnlocked(outcome) =>
              IF query.jobID \in query.jobs
              THEN answer' = [code |-> "200", JobID |-> query.jobID,
                              Outputs |-> SinkOutputs(Jobs[query.jobID].Graph, query.outputs)]
              ELSE answer'.code = "404"]_vars

\* C26: a job submitted with parallelism below 1 is handled with P = 1: each
\* node has exactly the partition 0, every task of the job is partition 0 of
\* 1 and waits for partition 0 of each parent, a node is COMPLETED once its
\* partition 0 is, and the job is COMPLETED only when partition 0 of every
\* node is.
C26_DefaultParallelism ==
    \A j \in DOMAIN Jobs :
        Jobs[j].Parallelism < 1 =>
            /\ \A n \in NodeSet(Jobs[j]) : DOMAIN TaskProgress[j][n] = {0}
            /\ \A t \in LiveTasks :
                  t.JobID = j =>
                      /\ t.PartitionID = 0
                      /\ t.TotalPartitions = 1
                      /\ \A k \in 1..Len(Jobs[j].Graph.Edges) :
                            Jobs[j].Graph.Edges[k][2] = t.NodeID =>
                                TaskProgress[j][Jobs[j].Graph.Edges[k][1]][0] = "COMPLETED"
            /\ \A n \in NodeSet(Jobs[j]) :
                  JobProgress[j][n] = "COMPLETED" <=> TaskProgress[j][n][0] = "COMPLETED"
            /\ Jobs[j].Status = "COMPLETED" =>
                  \A n \in NodeSet(Jobs[j]) : TaskProgress[j][n][0] = "COMPLETED"

\* C26 witness: a job with two sources and a join, submitted with
\* parallelism 0, is COMPLETED.
C26_Witness ==
    \E j \in DOMAIN Jobs :
        /\ Jobs[j].Parallelism = 0
        /\ Jobs[j].Graph = DagJoin
        /\ Jobs[j].Status = "COMPLETED"

\* C27: whatever SpillThreshold is, a completed reduce_by_key task has
\* written the lines the in-memory ReduceByKey writes for the same inputs,
\* each once.
C27_SpillSameAsInMemory ==
    (opReport.Status = "COMPLETED" /\ opTask.Op = "reduce_by_key") =>
        LET written == opFiles[opReport.Result]
            inMemory == ReduceByKey(opTask.InputFiles, opFiles, "ok").unordered
        IN /\ Range(written) = inMemory
           /\ Len(written) = Cardinality(inMemory)

\* C28: a completed reduce_by_key task has written the lines that the same
\* task, with the same SpillThreshold, writes for every permutation of the
\* lines of its first input file.
C28_OrderIndependent ==
    (opReport.Status = "COMPLETED" /\ opTask.Op = "reduce_by_key" /\ In1 \in DOMAIN opFiles) =>
        LET lines == opFiles[In1]
            written == opFiles[opReport.Result]
        IN \A f \in Permutations(1..Len(lines)) :
              LET permuted == MapSet(opFiles, In1, [i \in 1..Len(lines) |-> lines[f[i]]])
                  r == opReduceByKeyWithSpill(opTask.InputFiles, permuted, SpillThreshold, "ok")
              IN /\ r.unordered = Range(written)
                 /\ Cardinality(r.unordered) = Len(written)

\* The operators the specification names.
KnownOps == {"read_csv", "read_jsonl", "map", "flat_map", "filter", "reduce_by_key", "join"}

\* The paths a task reads.
TaskInputs(t) ==
    IF t.Op \in {"read_csv", "read_jsonl"} THEN {t.Args[1]} ELSE Range(t.InputFiles)

\* C29: an execution that met an unknown op, an unknown UDF, a missing input
\* file, a file that cannot be created or a write that fails is reported
\* FAILED with an error message.
C29_FailureReported ==
    opReport # NoOpReport =>
        LET before == [p \in DOMAIN opFiles \ {opReport.Result} |-> opFiles[p]]
            dry == RunOp(opTask, before, SpillThreshold, "ok")
            unknownOp == opTask.Op \notin KnownOps
            unknownUDF == \/ opTask.Op = "map" /\ opTask.Fn \notin MapFunctions
                          \/ opTask.Op = "flat_map" /\ opTask.Fn \notin FlatMapFunctions
                          \/ opTask.Op = "filter" /\ opTask.Fn \notin FilterFunctions
            missingInput == \E p \in TaskInputs(opTask) : p \notin DOMAIN before
            ioFailure == \/ opIO = "createFails"
                         \/ opIO = "writeFails" /\ (dry.lines # <<>> \/ dry.unordered # {})
        IN (unknownOp \/ unknownUDF \/ missingInput \/ ioFailure) =>
               (opReport.Status = "FAILED" /\ opReport.ErrorMsg # "")

\* C30: when nothing fails, a filter task with the registered predicate is
\* reported COMPLETED and its output file holds the input lines the
\* predicate accepts, in the order of the input.
C30_FilterExecuted ==
    (/\ opReport # NoOpReport
     /\ opTask.Op = "filter"
     /\ opTask.Fn \in FilterFunctions
     /\ opIO = "ok"
     /\ \A p \in TaskInputs(opTask) : p \in DOMAIN opFiles) =>
        /\ opReport.Status = "COMPLETED"
        /\ opReport.Result \in DOMAIN opFiles
        /\ opFiles[opReport.Result] =
               SelectSeq(ScanInputs(opTask.InputFiles, opFiles), long_words)

\* The lines of a file that have a key, i.e. a comma.
Keyed(lines) == {i \in 1..Len(lines) : Len(SplitN2(lines[i])) = 2}

\* The output line of a left line and a right line with the same key.
JoinLine(l, r) ==
    SplitN2(l)[1] \o <<",", " ">> \o SplitN2(l)[2] \o <<",", " ">> \o SplitN2(r)[2]

\* C31: the output of a completed join task holds the line
\* "key, left_rest, right_rest" for every left line and right line with the
\* same key, and holds no other line.
C31_InnerJoin ==
    (opReport.Status = "COMPLETED" /\ opTask.Op = "join") =>
        LET left == opFiles[opTask.InputFiles[1]]
            right == opFiles[opTask.InputFiles[2]]
            pairs == {<<i, k>> \in Keyed(left) \X Keyed(right) :
                         SplitN2(left[i])[1] = SplitN2(right[k])[1]}
            written == opFiles[opReport.Result]
        IN Range(written) = {JoinLine(left[pr[1]], right[pr[2]]) : pr \in pairs}

\* C32: the COMPLETED report the master has just handled names the partition
\* its task was created for, and the master holds that partition COMPLETED
\* with the reported path as its output.
C32_ReportNamesPartition ==
    lastReport.res.Status = "COMPLETED" =>
        LET res == lastReport.res
            outs == MapGet(MapGet(JobPartitionOutputs, res.JobID, EmptyMap),
                           res.NodeID, EmptyMap)
        IN /\ res.PartitionID = lastReport.part
           /\ getPartitionStatus(TaskProgress, res.JobID, res.NodeID, lastReport.part)
                  = "COMPLETED"
           /\ lastReport.part \in DOMAIN outs
           /\ outs[lastReport.part] = res.Result

\* C33: two tasks that workers hold for different partitions of the same
\* node of a job write to different files.
C33_FilePerPartition ==
    \A w \in WorkerIds, v \in WorkerIds :
        \A e \in accepted[w], f \in accepted[v] :
            (/\ e.task.JobID = f.task.JobID
             /\ e.task.NodeID = f.task.NodeID
             /\ e.task.PartitionID # f.task.PartitionID) =>
                OutputFile(w, e.task) # OutputFile(v, f.task)

\* C34: an iteration of the scheduler that assigns a task gives it to a
\* worker that is UP and moves rrIndex on by one; and when the workers that
\* are UP are the same n = 2 as at the assignment before, it gives the task
\* to the other worker.
C34_RoundRobin ==
    [][(SchedulerLoopObserved /\ posts' # posts) =>
          /\ lastAssign'.worker \in DOMAIN Workers
          /\ Workers[lastAssign'.worker].Status = "UP"
          /\ rrIndex' = (rrIndex + 1) % RRPeriod
          /\ (lastAssign.up = lastAssign'.up /\ Cardinality(lastAssign.up) = 2) =>
                 lastAssign'.worker # lastAssign.worker]_vars

\* The ids of the tasks that exist anywhere in the system.
TaskIds == {t.ID : t \in LiveTasks} \cup DOMAIN RunningTasks \cup DOMAIN TaskAssignments

Enqueued == SubSeq(TaskQueue', Len(TaskQueue) + 1, Len(TaskQueue'))

\* A task enqueued by the handling of a COMPLETED report has one input per
\* edge into its node, in the order of the edges: the path the master holds
\* for the task's partition of that parent.
InputsAsRecorded ==
    lastReport'.res.Status = "COMPLETED" =>
        \A h \in 1..Len(Enqueued) :
            LET t == Enqueued[h]
                edges == ParentEdges(Jobs[t.JobID], t.NodeID)
            IN /\ Len(edges) > 0
               /\ Len(t.InputFiles) = Len(edges)
               /\ \A k \in 1..Len(edges) :
                     /\ t.PartitionID \in DOMAIN JobPartitionOutputs'[t.JobID][edges[k][1]]
                     /\ t.InputFiles[k] =
                           JobPartitionOutputs'[t.JobID][edges[k][1]][t.PartitionID]

\* The path of the report just handled is an input of an enqueued task only
\* if the task that wrote it ran the same partition.
InputsOfOwnPartition ==
    lastReport'.res.Status = "COMPLETED" =>
        \A h \in 1..Len(Enqueued) :
            LET t == Enqueued[h]
                edges == ParentEdges(Jobs[t.JobID], t.NodeID)
            IN \A k \in 1..Len(edges) :
                  edges[k][1] = lastReport'.res.NodeID => lastReport'.part = t.PartitionID

\* C36: a task enqueued for partition i of a node with parents has exactly
\* one input per incoming edge, in edge order, each the recorded output of
\* partition i of the parent, none missing and none written by another
\* partition.
C36_DependentInputs ==
    [][InputsAsRecorded /\ InputsOfOwnPartition]_vars


\* What main leaves behind after NewMaster and LoadState, seen from the
\* state of the process that stopped: jobs keep their status, progress is
\* rebuilt from the status alone, and nothing of the runtime tables is left.
AllMarked(progress, partitions, j, job, status) ==
    \A n \in NodeSet(job) :
        /\ MapGet(MapGet(progress, j, EmptyMap), n, "") = status
        /\ \A i \in 0..(Parallelism(job) - 1) :
              getPartitionStatus(partitions, j, n, i) = status

\* C37: a restart of the master that loads the snapshot leaves every job
\* that was COMPLETED with all nodes and all P partitions COMPLETED, every
\* job that was RUNNING still RUNNING with all nodes and partitions PENDING,
\* the worker registry, the assignment table, the running-task table and
\* the task queue empty, and it enqueues no task.
C37_RestartLoadsSnapshot ==
    [][MasterRestart =>
          /\ \A j \in DOMAIN Jobs :
                /\ Jobs[j].Status = "COMPLETED" =>
                      /\ j \in DOMAIN Jobs'
                      /\ Jobs'[j].Status = "COMPLETED"
                      /\ AllMarked(JobProgress', TaskProgress', j, Jobs'[j], "COMPLETED")
                /\ Jobs[j].Status = "RUNNING" =>
                      /\ j \in DOMAIN Jobs'
                      /\ Jobs'[j].Status = "RUNNING"
                      /\ AllMarked(JobProgress', TaskProgress', j, Jobs'[j], "PENDING")
          /\ Workers' = EmptyMap
          /\ TaskAssignments' = EmptyMap
          /\ RunningTasks' = EmptyMap
          /\ TaskQueue' = <<>>
          /\ sourcesPending' = {}
          /\ nextId' = nextId]_vars

\* C37 witness: the master has been restarted while a job with two
\* partitions was RUNNING with tasks already created; the job is RUNNING,
\* everything of it is PENDING and the tables are empty.
C37_Witness ==
    /\ Workers = EmptyMap
    /\ TaskQueue = <<>>
    /\ RunningTasks = EmptyMap
    /\ nextId > 1
    /\ \E j \in DOMAIN Jobs :
          /\ Jobs[j].Status = "RUNNING"
          /\ Parallelism(Jobs[j]) = 2
          /\ j \notin sourcesPending
          /\ AllMarked(JobProgress, TaskProgress, j, Jobs[j], "PENDING")


C39_AssignedIsRunning ==
    \A t \in DOMAIN TaskAssignments :
        /\ t \in DOMAIN RunningTasks
        /\ RunningTasks[t].ID = t
        /\ TaskAssignments[t] \in DOMAIN Workers

\* C39 witness: a task is assigned while another running-task entry has
\* lost its assignment (a failed send removes the assignment alone).
C39_Witness ==
    /\ TaskAssignments # EmptyMap
    /\ DOMAIN RunningTasks # DOMAIN TaskAssignments


\* The order of the partition statuses: PENDING, SCHEDULED, COMPLETED.
Rank(status) ==
    CASE status = "COMPLETED" -> 2
      [] status = "SCHEDULED" -> 1
      [] OTHER -> 0

\* In this step no partition of a job of the catalog gets a lower status.
NoBackward ==
    \A j \in DOMAIN Jobs : \A n \in NodeSet(Jobs[j]) :
        \A i \in 0..(Parallelism(Jobs[j]) - 1) :
            Rank(getPartitionStatus(TaskProgress', j, n, i))
                >= Rank(getPartitionStatus(TaskProgress, j, n, i))

\* The tasks this step creates with queueTask (new id, put on the queue in
\* the same step) are first attempts of partitions that were PENDING and
\* are not PENDING afterwards, one task per partition.
CreatedFromPending ==
    \A k \in 1..Len(Enqueued) :
        Enqueued[k].ID >= nextId =>
            /\ Enqueued[k].Attempt = 1
            /\ getPartitionStatus(TaskProgress, Enqueued[k].JobID, Enqueued[k].NodeID,
                                  Enqueued[k].PartitionID) = "PENDING"
            /\ getPartitionStatus(TaskProgress', Enqueued[k].JobID, Enqueued[k].NodeID,
                                  Enqueued[k].PartitionID) # "PENDING"
            /\ \A h \in 1..Len(Enqueued) :
                  (/\ Enqueued[h].ID >= nextId
                   /\ Enqueued[h].JobID = Enqueued[k].JobID
                   /\ Enqueued[h].NodeID = Enqueued[k].NodeID
                   /\ Enqueued[h].PartitionID = Enqueued[k].PartitionID) => h = k

\* C40 as stated: partition status never moves backwards (COMPLETED stays
\* COMPLETED, a partition that left PENDING never returns to PENDING, also
\* not on retry or orphan re-queue), and a first-attempt task is created
\* only for a PENDING partition, hence at most once per partition.
C40_NeverBackward == [][NoBackward /\ CreatedFromPending]_vars

\* C40 (amended): the same within one run of the master process, i.e. in
\* every step other than a restart of the master.
C40_NeverBackwardWithinRun ==
    [][(~MasterRestart) => (NoBackward /\ CreatedFromPending)]_vars

\* C40 witness: a task waits in the queue for its second attempt or later
\* while its partition keeps the status SCHEDULED.
C40_Witness ==
    \E k \in 1..Len(TaskQueue) :
        /\ TaskQueue[k].Attempt > 1
        /\ getPartitionStatus(TaskProgress, TaskQueue[k].JobID, TaskQueue[k].NodeID,
                              TaskQueue[k].PartitionID) = "SCHEDULED"

====
